---- MODULE Spec2Model ----
(***************************************************************************)
(* A model of the connection engine of the Hazelcast Rust client:         *)
(* remote/message.rs (Frame, Message), remote/channel.rs (Channel: the    *)
(* coordinating loop, send, Events) and remote/member.rs (Sender).         *)
(* Bytes are naturals 0..255, byte strings are sequences of bytes, and    *)
(* fixed-width integers are read and written little-endian, as on the     *)
(* wire.                                                                   *)
(***************************************************************************)
EXTENDS Integers, Sequences, FiniteSets, TLC

(***************************************************************************)
(* Bounds of the model.                                                    *)
(***************************************************************************)
MaxCalls == 2
MaxRespFrames == 3
MaxDecodeFrames == 4
MaxListLen == 2
MaxWireFrames == 3

(***************************************************************************)
(* Program constants.                                                      *)
(***************************************************************************)
NO_CORRELATION == 0
DEFAULT_FLAGS == 0
BEGIN_FRAGMENT_FLAG == 32768
END_FRAGMENT_FLAG == 16384
IS_FINAL_FLAG == 8192
BEGIN_DATA_STRUCTURE_FLAG == 4096
END_DATA_STRUCTURE_FLAG == 2048
IS_NULL_FLAG == 1024
FLAGS_LENGTH == 2
MESSAGE_TYPE_LENGTH == 4
CORRELATION_ID_LENGTH == 8
PING_REQUEST_TYPE == 2816
PING_RESPONSE_TYPE == 2817

(***************************************************************************)
(* Bit operations on 16-bit flag words.                                    *)
(***************************************************************************)
RECURSIVE BitAnd(_, _)
BitAnd(a, b) ==
    IF a = 0 \/ b = 0 THEN 0
    ELSE (IF a % 2 = 1 /\ b % 2 = 1 THEN 1 ELSE 0) + 2 * BitAnd(a \div 2, b \div 2)

RECURSIVE BitOr(_, _)
BitOr(a, b) ==
    IF a = 0 THEN b
    ELSE IF b = 0 THEN a
    ELSE (IF a % 2 = 1 \/ b % 2 = 1 THEN 1 ELSE 0) + 2 * BitOr(a \div 2, b \div 2)

UNFRAGMENTED_MESSAGE == BitOr(BEGIN_FRAGMENT_FLAG, END_FRAGMENT_FLAG)

\* a test that is satisfied by any common bit
is_flag_set_any(flags, mask) == BitAnd(flags, mask) # 0

is_flag_set(flags, mask) == BitAnd(flags, mask) = mask

(***************************************************************************)
(* Little-endian encoding of v in n bytes, and decoding of a byte string.  *)
(***************************************************************************)
RECURSIVE WriteLE(_, _)
WriteLE(v, n) == IF n = 0 THEN <<>> ELSE <<v % 256>> \o WriteLE(v \div 256, n - 1)

RECURSIVE ReadLE(_)
ReadLE(bytes) == IF bytes = <<>> THEN 0 ELSE Head(bytes) + 256 * ReadLE(Tail(bytes))

Reverse(s) == [i \in 1 .. Len(s) |-> s[Len(s) + 1 - i]]

\* A 64-bit value is kept as its 8 base-256 digits, most significant first
\* (it does not fit an integer of the checker); written little-endian its
\* digits come out last digit first, and read little-endian the first byte
\* is the last digit.
U64(v) == Reverse(WriteLE(v, 8))
U64WriteLE(digits) == Reverse(digits)
U64ReadLE(bytes) == Reverse(bytes)

\* i32 -1, the partition-id placeholder, as written by the request encoders
PartitionIdBytes == <<255, 255, 255, 255>>

(***************************************************************************)
(* Frame (remote/message.rs).                                              *)
(***************************************************************************)
FrameNew(content, flags) ==
    [content |-> content, flags |-> flags, type |-> 0, id |-> 0, is_first |-> FALSE]

initial_frame(flags, message_type, correlation_id) ==
    [content  |-> WriteLE(message_type, MESSAGE_TYPE_LENGTH)
                    \o WriteLE(correlation_id, CORRELATION_ID_LENGTH),
     flags    |-> flags,
     type     |-> message_type,
     id       |-> correlation_id,
     is_first |-> TRUE]

append_content(frame, content) == [frame EXCEPT !.content = @ \o content]

payload(frame, is_final) ==
    WriteLE(IF is_final THEN BitOr(frame.flags, IS_FINAL_FLAG) ELSE frame.flags,
            FLAGS_LENGTH) \o frame.content

\* split_to(n) panics when fewer than n bytes remain
FrameFromPanics(bytes, is_first) ==
    \/ Len(bytes) < FLAGS_LENGTH
    \/ is_first /\ Len(bytes) < FLAGS_LENGTH + MESSAGE_TYPE_LENGTH + CORRELATION_ID_LENGTH

\* a parser that leaves the type and the id out of a first frame's content
FrameFromHeaderless(bytes, is_first) ==
    LET flags == ReadLE(SubSeq(bytes, 1, FLAGS_LENGTH))
        rest  == SubSeq(bytes, FLAGS_LENGTH + 1, Len(bytes))
    IN  IF is_first
        THEN [content  |-> SubSeq(rest, MESSAGE_TYPE_LENGTH + CORRELATION_ID_LENGTH + 1,
                                  Len(rest)),
              flags    |-> flags,
              type     |-> ReadLE(SubSeq(rest, 1, MESSAGE_TYPE_LENGTH)),
              id       |-> ReadLE(SubSeq(rest, MESSAGE_TYPE_LENGTH + 1,
                                         MESSAGE_TYPE_LENGTH + CORRELATION_ID_LENGTH)),
              is_first |-> TRUE]
        ELSE FrameNew(rest, flags)

FrameFrom(bytes, is_first) ==
    LET flags == ReadLE(SubSeq(bytes, 1, FLAGS_LENGTH))
        rest  == SubSeq(bytes, FLAGS_LENGTH + 1, Len(bytes))
    IN  IF is_first
        THEN LET message_type   == ReadLE(SubSeq(rest, 1, MESSAGE_TYPE_LENGTH))
                 correlation_id ==
                     ReadLE(SubSeq(rest, MESSAGE_TYPE_LENGTH + 1,
                                   MESSAGE_TYPE_LENGTH + CORRELATION_ID_LENGTH))
                 tail == SubSeq(rest, MESSAGE_TYPE_LENGTH + CORRELATION_ID_LENGTH + 1,
                                Len(rest))
             IN  append_content(initial_frame(flags, message_type, correlation_id), tail)
        ELSE FrameNew(rest, flags)

(***************************************************************************)
(* Message (remote/message.rs).                                            *)
(***************************************************************************)
MessageNew(id, type, frame) == [id |-> id, type |-> type, frames |-> <<frame>>]

\* an add that puts the frame first
MessageAddFront(message, frame) == [message EXCEPT !.frames = <<frame>> \o @]

\* frames.push_back(frame)
MessageAdd(message, frame) == [message EXCEPT !.frames = Append(@, frame)]

HEADER_LENGTH == 18
FRAME_LENGTH == 4

\* the loop of From<BytesMut> for Message over the bytes after the first
\* frame: length, flags, content of length - 6 bytes, until the final frame
\* or the end of the bytes; get_u32_le, get_u16_le and split_to panic when
\* the bytes they need are not there
RECURSIVE MessageFromBytesRemaining(_, _)
MessageFromBytesRemaining(message, message_bytes) ==
    IF message_bytes = <<>> THEN [tag |-> "value", value |-> message]
    ELSE IF Len(message_bytes) < FRAME_LENGTH + FLAGS_LENGTH THEN [tag |-> "panic"]
    ELSE LET len   == ReadLE(SubSeq(message_bytes, 1, FRAME_LENGTH))
             flags == ReadLE(SubSeq(message_bytes, FRAME_LENGTH + 1,
                                    FRAME_LENGTH + FLAGS_LENGTH))
         IN  IF len < FRAME_LENGTH + FLAGS_LENGTH \/ Len(message_bytes) < len
             THEN [tag |-> "panic"]
             ELSE LET content == SubSeq(message_bytes, FRAME_LENGTH + FLAGS_LENGTH + 1, len)
                      added   == MessageAdd(message, FrameNew(content, flags))
                  IN  IF is_flag_set(flags, IS_FINAL_FLAG)
                      THEN [tag |-> "value", value |-> added]
                      ELSE MessageFromBytesRemaining(
                               added, SubSeq(message_bytes, len + 1, Len(message_bytes)))

\* impl From<BytesMut> for Message: the first frame, then the loop
MessageFromBytes(message_bytes) ==
    IF Len(message_bytes) < HEADER_LENGTH THEN [tag |-> "panic"]
    ELSE LET init_len     == ReadLE(SubSeq(message_bytes, 1, FRAME_LENGTH))
             init_flags   == ReadLE(SubSeq(message_bytes, FRAME_LENGTH + 1,
                                           FRAME_LENGTH + FLAGS_LENGTH))
             message_type == ReadLE(SubSeq(message_bytes, FRAME_LENGTH + FLAGS_LENGTH + 1,
                                           FRAME_LENGTH + FLAGS_LENGTH + MESSAGE_TYPE_LENGTH))
             id           == ReadLE(SubSeq(message_bytes,
                                           FRAME_LENGTH + FLAGS_LENGTH + MESSAGE_TYPE_LENGTH + 1,
                                           HEADER_LENGTH))
         IN  IF init_len < HEADER_LENGTH \/ Len(message_bytes) < init_len
             THEN [tag |-> "panic"]
             ELSE LET init_content == SubSeq(message_bytes, HEADER_LENGTH + 1, init_len)
                      init_frame   == append_content(
                                          initial_frame(init_flags, message_type, id),
                                          init_content)
                  IN  MessageFromBytesRemaining(
                          MessageNew(id, message_type, init_frame),
                          SubSeq(message_bytes, init_len + 1, Len(message_bytes)))

(***************************************************************************)
(* Request encoders (messaging/ping.rs, messaging/pn_counter.rs) and the   *)
(* conversion of (id, request) into a Message.                             *)
(***************************************************************************)
PN_GET_REQUEST_TYPE == 1900800
PN_GET_RESPONSE_TYPE == 1900801

\* a Uuid is its 16 bytes (Uuid::as_bytes): the most significant half, then
\* the least significant half, each most significant byte first
UuidOf(msb, lsb) == U64(msb) \o U64(lsb)

\* the counter name "c" and the target uuid (msb 1, lsb 2) used by the callers
NameBytes == <<99>>
TargetUuid == UuidOf(1, 2)

\* a string encoder that writes the length in front of the bytes
encode_string_prefixed(message, value) ==
    MessageAdd(message, FrameNew(<<Len(value)>> \o value, DEFAULT_FLAGS))

encode_string(message, value) == MessageAdd(message, FrameNew(value, DEFAULT_FLAGS))

\* Buf::get_u64 on the bytes of the uuid: the next 8 bytes, big-endian
get_u64(bytes, off) == SubSeq(bytes, off + 1, off + 8)

\* an encoder that writes the least significant half first
encode_uuid_swapped(uuid) ==
    <<0>> \o U64WriteLE(get_u64(uuid, 8)) \o U64WriteLE(get_u64(uuid, 0))

\* encode_uuid: the not-null marker, msb.write_to, lsb.write_to
encode_uuid(uuid) ==
    LET msb == get_u64(uuid, 0)
        lsb == get_u64(uuid, 8)
    IN  <<0>> \o U64WriteLE(msb) \o U64WriteLE(lsb)

\* for entry in entries: encode_uuid(content, entry.key()), then
\* entry.value().write_to(content)
RECURSIVE ReplicaTimestampContent(_)
ReplicaTimestampContent(entries) ==
    IF entries = <<>> THEN <<>>
    ELSE encode_uuid(Head(entries).key) \o WriteLE(Head(entries).value, 8)
             \o ReplicaTimestampContent(Tail(entries))

\* an encoder that writes the number of entries ahead of them
encode_replica_timestamp_list_counted(message, entries) ==
    MessageAdd(message,
               FrameNew(<<Len(entries)>> \o ReplicaTimestampContent(entries), DEFAULT_FLAGS))

\* one frame, whatever the number of entries
encode_replica_timestamp_list(message, entries) ==
    MessageAdd(message, FrameNew(ReplicaTimestampContent(entries), DEFAULT_FLAGS))

AUTH_REQUEST_TYPE == 256
AUTH_RESPONSE_TYPE == 257

\* an encoder of optional values that writes nothing for an absent value
encode_nullable_omitting(message, value) ==
    IF value.some THEN encode_string(message, value.value) ELSE message

\* encode_nullable with encode_string: the value, or one empty null frame
encode_nullable(message, value) ==
    IF value.some THEN encode_string(message, value.value)
    ELSE MessageAdd(message, FrameNew(<<>>, IS_NULL_FLAG))

\* encode_list with encode_string: begin frame, one frame per item, end frame
RECURSIVE encode_items(_, _)
encode_items(message, list) ==
    IF list = <<>> THEN message
    ELSE encode_items(encode_string(message, Head(list)), Tail(list))

\* an encoder of lists that leaves the list open
encode_list_unclosed(message, list) ==
    encode_items(MessageAdd(message, FrameNew(<<>>, BEGIN_DATA_STRUCTURE_FLAG)), list)

encode_list(message, list) ==
    MessageAdd(encode_items(MessageAdd(message, FrameNew(<<>>, BEGIN_DATA_STRUCTURE_FLAG)),
                            list),
               FrameNew(<<>>, END_DATA_STRUCTURE_FLAG))

\* the AuthenticationRequest Member::connect builds: "dev", no username, no
\* password, "Rust", the crate version, "hz_client", no labels
AuthRequest ==
    [uuid |-> UuidOf(1, 2),
     serialization_version |-> 1,
     cluster_name |-> <<100, 101, 118>>,
     username |-> [some |-> FALSE],
     password |-> [some |-> FALSE],
     client_type |-> <<82, 117, 115, 116>>,
     client_version |-> <<48, 46, 49>>,
     client_name |-> <<104, 122, 95, 99, 108, 105, 101, 110, 116>>,
     labels |-> <<>>]

\* messaging/authentication.rs encode_request
auth_encode_request(id, request, frame) ==
    LET initial == append_content(frame,
                       PartitionIdBytes \o encode_uuid(request.uuid)
                           \o <<request.serialization_version>>)
        m0 == MessageNew(id, AUTH_REQUEST_TYPE, initial)
        m1 == encode_string(m0, request.cluster_name)
        m2 == encode_nullable(m1, request.username)
        m3 == encode_nullable(m2, request.password)
        m4 == encode_string(m3, request.client_type)
        m5 == encode_string(m4, request.client_version)
        m6 == encode_string(m5, request.client_name)
    IN  encode_list(m6, request.labels)

Kinds == {"ping", "get"}

RequestType(kind) ==
    CASE kind = "ping" -> PING_REQUEST_TYPE
      [] kind = "get" -> PN_GET_REQUEST_TYPE
      [] kind = "auth" -> AUTH_REQUEST_TYPE

ResponseType(kind) ==
    CASE kind = "ping" -> PING_RESPONSE_TYPE
      [] kind = "get" -> PN_GET_RESPONSE_TYPE
      [] kind = "auth" -> AUTH_RESPONSE_TYPE

encode_request(id, kind, frame) ==
    CASE kind = "ping" ->
            MessageNew(id, PING_REQUEST_TYPE, append_content(frame, PartitionIdBytes))
      [] kind = "get" ->
            encode_replica_timestamp_list(
                encode_string(
                    MessageNew(id, PN_GET_REQUEST_TYPE,
                               append_content(frame,
                                   PartitionIdBytes \o encode_uuid(TargetUuid))),
                    NameBytes),
                <<>>)
      [] kind = "auth" -> auth_encode_request(id, AuthRequest, frame)

\* a conversion that builds the initial frame with no flags
MessageFromRequestUnmarked(id, kind) ==
    encode_request(id, kind, initial_frame(DEFAULT_FLAGS, RequestType(kind), id))

MessageFromRequest(id, kind) ==
    encode_request(id, kind, initial_frame(UNFRAGMENTED_MESSAGE, RequestType(kind), id))

(***************************************************************************)
(* Outcomes of a function that may panic, and the accessors Frame::id and  *)
(* Frame::r#type (remote/message.rs).                                      *)
(***************************************************************************)
Panic == [tag |-> "panic"]
Returned(v) == [tag |-> "value", value |-> v]

\* an accessor that hands out the stored field of any frame
Frame_idUnchecked(frame) == Returned(frame.id)

Frame_id(frame) == IF ~frame.is_first THEN Panic ELSE Returned(frame.id)

Frame_type(frame) == IF ~frame.is_first THEN Panic ELSE Returned(frame.type)

(***************************************************************************)
(* Response decoders (codec/util.rs, codec/custom.rs, messaging/*.rs).     *)
(* An iterator over the frames of a message is the sequence of frames and  *)
(* the position of the next frame.  Reading a fixed-width value needs its  *)
(* bytes to remain in the buffer.                                          *)
(***************************************************************************)
EXCEPTION_TYPE == 0
FIXED_FIELD_OFFSET == MESSAGE_TYPE_LENGTH + CORRELATION_ID_LENGTH + 1
UUID_BYTES == 16
REPLICA_TIMESTAMP_ENTRY_SIZE == UUID_BYTES + 1 + 8

CanRead(content, off, n) == Len(content) >= off + n
ReadAt(content, off, n) == ReadLE(SubSeq(content, off + 1, off + n))

\* Uuid::read_from on a buffer of 16 bytes: the 128-bit value little-endian
Uuid_read_from(bytes) == Reverse(bytes)

\* a decoder that names the halves as the encoder does
decode_uuid_renamed(content, off) ==
    IF ~CanRead(content, off, 1) THEN Panic
    ELSE IF content[off + 1] # 0 THEN Returned([none |-> TRUE])
    ELSE IF ~CanRead(content, off + 1, UUID_BYTES) THEN Panic
    ELSE LET msb == U64ReadLE(SubSeq(content, off + 2, off + 9))
             lsb == U64ReadLE(SubSeq(content, off + 10, off + 17))
             writeable == U64WriteLE(msb) \o U64WriteLE(lsb)
         IN  Returned([none |-> FALSE, uuid |-> Uuid_read_from(writeable)])

\* decode_uuid at offset off: the null marker; then lsb, msb read in this
\* order, written msb first into a buffer, and Uuid::read_from of the buffer
decode_uuid(content, off) ==
    IF ~CanRead(content, off, 1) THEN Panic
    ELSE IF content[off + 1] # 0 THEN Returned([none |-> TRUE])
    ELSE IF ~CanRead(content, off + 1, UUID_BYTES) THEN Panic
    ELSE LET lsb == U64ReadLE(SubSeq(content, off + 2, off + 9))
             msb == U64ReadLE(SubSeq(content, off + 10, off + 17))
             writeable == U64WriteLE(msb) \o U64WriteLE(lsb)
         IN  Returned([none |-> FALSE, uuid |-> Uuid_read_from(writeable)])

\* one ReplicaTimestampEntry at offset off: key (expect Some), then value
decode_replica_timestamp_entry(content, off) ==
    LET key == decode_uuid(content, off)
    IN  IF key.tag = "panic" \/ key.value.none THEN Panic
        ELSE IF ~CanRead(content, off + 1 + UUID_BYTES, 8) THEN Panic
        ELSE Returned([key |-> key.value.uuid,
                       value |-> ReadAt(content, off + 1 + UUID_BYTES, 8)])

\* decode_replica_timestamp_list: item_count = content.len() / entry size
decode_replica_timestamp_list(frames, pos) ==
    IF pos > Len(frames) THEN Panic
    ELSE LET content    == frames[pos].content
             item_count == Len(content) \div REPLICA_TIMESTAMP_ENTRY_SIZE
             entry(i)   == decode_replica_timestamp_entry(
                               content, (i - 1) * REPLICA_TIMESTAMP_ENTRY_SIZE)
         IN  IF \E i \in 1 .. item_count : entry(i).tag = "panic" THEN Panic
             ELSE Returned([entries |-> [i \in 1 .. item_count |-> entry(i).value],
                            pos |-> pos + 1])

\* std::str::from_utf8 accepts the bytes: well-formed UTF-8 sequences only
RECURSIVE ValidUtf8(_)
ValidUtf8(b) ==
    LET cont(i) == Len(b) >= i /\ b[i] >= 128 /\ b[i] <= 191
        rest(n) == ValidUtf8(SubSeq(b, n + 1, Len(b)))
    IN  IF b = <<>> THEN TRUE
        ELSE IF b[1] <= 127 THEN rest(1)
        ELSE IF b[1] >= 194 /\ b[1] <= 223 THEN cont(2) /\ rest(2)
        ELSE IF b[1] >= 224 /\ b[1] <= 239
        THEN /\ cont(2) /\ cont(3)
             /\ b[1] = 224 => b[2] >= 160
             /\ b[1] = 237 => b[2] <= 159
             /\ rest(3)
        ELSE IF b[1] >= 240 /\ b[1] <= 244
        THEN /\ cont(2) /\ cont(3) /\ cont(4)
             /\ b[1] = 240 => b[2] >= 144
             /\ b[1] = 244 => b[2] <= 143
             /\ rest(4)
        ELSE FALSE

\* iter.next() on the frames: the position after it (an exhausted iterator stays so)
IterNext(frames, pos) == IF pos > Len(frames) THEN pos ELSE pos + 1

\* decode_string: next().expect(..), from_utf8(..).expect(..)
decode_string(frames, pos) ==
    IF pos > Len(frames) THEN Panic
    ELSE IF ~ValidUtf8(frames[pos].content) THEN Panic
    ELSE Returned([value |-> frames[pos].content, pos |-> pos + 1])

is_null_frame(frame) == is_flag_set(frame.flags, IS_NULL_FLAG)

is_end_frame(frame) == is_flag_set(frame.flags, END_DATA_STRUCTURE_FLAG)

is_begin_frame(frame) == is_flag_set(frame.flags, BEGIN_DATA_STRUCTURE_FLAG)

\* decode_address: skip the begin frame, port from the next frame, host
\* from the frame after it, skip the end frame
\* a decoder that returns without stepping over the end frame
decode_address_unclosed(frames, pos) ==
    LET at == IterNext(frames, pos)
    IN  IF at > Len(frames) THEN Panic
        ELSE IF ~CanRead(frames[at].content, 0, 4) THEN Panic
        ELSE LET host == decode_string(frames, at + 1)
             IN  IF host.tag = "panic" THEN Panic
                 ELSE Returned([value |-> [host |-> host.value.value,
                                           port |-> ReadAt(frames[at].content, 0, 4)],
                                pos |-> host.value.pos])

decode_address(frames, pos) ==
    LET at == IterNext(frames, pos)
    IN  IF at > Len(frames) THEN Panic
        ELSE IF ~CanRead(frames[at].content, 0, 4) THEN Panic
        ELSE LET host == decode_string(frames, at + 1)
             IN  IF host.tag = "panic" THEN Panic
                 ELSE Returned([value |-> [host |-> host.value.value,
                                           port |-> ReadAt(frames[at].content, 0, 4)],
                                pos |-> IterNext(frames, host.value.pos)])

\* the element decoder of test_decode_nullable: it returns -1 and reads nothing
decode_const(frames, pos) == Returned([value |-> -1, pos |-> pos])

\* a decoder passed as fn(&mut Peekable<IterMut<Frame>>) -> T, by name
ElementDecoder(decoder, frames, pos) ==
    CASE decoder = "decode_string" -> decode_string(frames, pos)
      [] decoder = "decode_address" -> decode_address(frames, pos)
      [] decoder = "decode_const" -> decode_const(frames, pos)

\* a decoder of nullable values that asks the element decoder first
decode_nullable_strict(frames, pos, decoder) ==
    LET r == ElementDecoder(decoder, frames, pos)
    IN  IF r.tag = "panic" THEN Panic
        ELSE IF pos <= Len(frames) /\ is_null_frame(frames[pos])
        THEN Returned([some |-> FALSE, pos |-> pos])
        ELSE Returned([some |-> TRUE, value |-> r.value.value, pos |-> r.value.pos])

\* decode_nullable: iter.peek()? gives None on an exhausted iterator; a null
\* frame gives None and is left in the iterator
decode_nullable(frames, pos, decoder) ==
    IF pos > Len(frames) THEN Returned([some |-> FALSE, pos |-> pos])
    ELSE IF is_null_frame(frames[pos]) THEN Returned([some |-> FALSE, pos |-> pos])
    ELSE LET r == ElementDecoder(decoder, frames, pos)
         IN  IF r.tag = "panic" THEN Panic
             ELSE Returned([some |-> TRUE, value |-> r.value.value, pos |-> r.value.pos])

\* messaging/ping.rs decode_response
ping_decode_response(message) == Returned([response |-> "PingResponse"])

\* messaging/pn_counter.rs pn_counter_get::decode_response
pn_counter_get_decode_response(message) ==
    LET initial_content == message.frames[1].content
    IN  IF ~CanRead(initial_content, FIXED_FIELD_OFFSET, 8 + 4) THEN Panic
        ELSE LET list == decode_replica_timestamp_list(message.frames, 2)
             IN  IF list.tag = "panic" THEN Panic
                 ELSE Returned([response |-> "PnCounterGetResponse",
                                value |-> ReadAt(initial_content, FIXED_FIELD_OFFSET, 8),
                                replica_timestamps |-> list.value.entries])

\* the fixed fields of an authentication response after FIXED_FIELD_OFFSET:
\* status, member uuid, serialization version, partition count, cluster id,
\* failover supported
AUTH_FIXED_FIELDS == 1 + UUID_BYTES + 1 + 4 + UUID_BYTES + 1

\* messaging/authentication.rs decode_response
auth_decode_response(message) ==
    LET initial_content == message.frames[1].content
    IN  IF ~CanRead(initial_content, FIXED_FIELD_OFFSET, AUTH_FIXED_FIELDS) THEN Panic
        ELSE LET address == decode_nullable(message.frames, 2, "decode_address")
             IN  IF address.tag = "panic" THEN Panic
                 ELSE LET version == decode_string(message.frames, address.value.pos)
                      IN  IF version.tag = "panic" THEN Panic
                          ELSE Returned([response |-> "AuthenticationResponse",
                                         status |-> initial_content[FIXED_FIELD_OFFSET + 1],
                                         address |-> [some |-> address.value.some],
                                         hz_server_version |-> version.value.value])

\* the frames of an authentication response, as in test_decode_response:
\* the fixed fields, the address (or a null frame), the server version
AuthResponseFrames(id, status, with_address) ==
    LET uuid == WriteLE(1, 8) \o WriteLE(2, 8)
        fixed == <<0, status>> \o uuid \o <<1>> \o WriteLE(271, 4) \o uuid \o <<0>>
        first == append_content(initial_frame(UNFRAGMENTED_MESSAGE, AUTH_RESPONSE_TYPE, id),
                                fixed)
        address == IF with_address
                   THEN <<FrameNew(<<>>, BEGIN_DATA_STRUCTURE_FLAG),
                          FrameNew(WriteLE(5701, 4), DEFAULT_FLAGS),
                          FrameNew(<<104>>, DEFAULT_FLAGS),
                          FrameNew(<<>>, END_DATA_STRUCTURE_FLAG)>>
                   ELSE <<FrameNew(<<>>, IS_NULL_FLAG)>>
    IN  <<first>> \o address \o <<FrameNew(<<53, 46, 48>>, DEFAULT_FLAGS)>>

Decoder(kind, message) ==
    CASE kind = "ping" -> ping_decode_response(message)
      [] kind = "get" -> pn_counter_get_decode_response(message)
      [] kind = "auth" -> auth_decode_response(message)

(***************************************************************************)
(* impl TryFrom<R> for Message: Ok(decoder(message)) when the type is the  *)
(* expected one; otherwise assert_eq!(type, Exception::type) and           *)
(* Err(ServerFailure).                                                     *)
(***************************************************************************)
\* a conversion that decodes whatever type arrives
try_from_unchecked(message, kind) ==
    LET r == Decoder(kind, message)
    IN  IF r.tag = "panic" THEN Panic ELSE [tag |-> "Ok", value |-> r.value]

try_from(message, kind) ==
    IF message.type = ResponseType(kind)
    THEN LET r == Decoder(kind, message)
         IN  IF r.tag = "panic" THEN Panic ELSE [tag |-> "Ok", value |-> r.value]
    ELSE IF message.type # EXCEPTION_TYPE THEN Panic
    ELSE [tag |-> "Err", error |-> "ServerFailure"]

(***************************************************************************)
(* State.                                                                  *)
(***************************************************************************)
VARIABLES
    sequencer,           \* Sender.sequencer
    pc,                  \* position of each Sender::send / Channel::send call
    req,                 \* the request Message each call built
    msg,                 \* the response Message each call accumulates
    rx,                  \* each call's sink: frames sent and not yet received
    txAlive,             \* whether the Responder of each call is still alive
    egress,              \* the egress queue of (Message, Responder)
    cur,                 \* the egress event being written: <<>> or <<[message, responder, next]>>
    wire,                \* payloads written to the socket, oldest first
    correlations,        \* the correlation table: id -> responder
    active_correlation,  \* the cursor
    loop,                \* "unconnected", "running", "done" (Ok), "failed" (Err), "panicked"
    inbound,             \* frames the peer sent that the loop has not read
    answered,            \* ids the peer has answered
    rogue,               \* whether the peer has sent its unsolicited frame
    inlog,               \* history: every inbound frame the loop handled
    atTeardown,          \* history: the calls outstanding when the loop ended
    ioError,             \* history: a socket read or write has failed
    arg,                 \* the input of the codec function under study
    ret,                 \* its outcome, or NotApplied
    stage,               \* position and result of Member::connect
    preamble             \* what write_all calls have put on the socket, unframed

vars == <<sequencer, pc, req, msg, rx, txAlive, egress, cur, wire, correlations,
          active_correlation, loop, inbound, answered, rogue, inlog, atTeardown,
          ioError, arg, ret, stage, preamble>>

callVars == <<sequencer, pc, req, msg>>
loopVars == <<cur, wire, correlations, active_correlation, loop, inlog, atTeardown,
             ioError>>
peerVars == <<inbound, answered, rogue>>
codecVars == <<arg, ret>>
memberVars == <<stage, preamble>>
engineVars == <<sequencer, pc, req, msg, rx, txAlive, egress, cur, wire, correlations,
                active_correlation, loop, inbound, answered, rogue, inlog, atTeardown,
                ioError>>

Calls == 1 .. MaxCalls
NoMessage == [id |-> 0, type |-> 0, frames |-> <<>>]
EmptyTable == [k \in {} |-> 0]
NoArg == [op |-> "none"]
NotApplied == [tag |-> "none"]

\* no call made, nothing queued, written, read or registered
InitQuiet ==
    /\ sequencer = 0
    /\ pc = [c \in Calls |-> "idle"]
    /\ req = [c \in Calls |-> NoMessage]
    /\ msg = [c \in Calls |-> NoMessage]
    /\ rx = [c \in Calls |-> <<>>]
    /\ txAlive = [c \in Calls |-> FALSE]
    /\ egress = <<>>
    /\ cur = <<>>
    /\ wire = <<>>
    /\ correlations = EmptyTable
    /\ active_correlation = NO_CORRELATION
    /\ inbound = <<>>
    /\ answered = {}
    /\ rogue = FALSE
    /\ inlog = <<>>
    /\ atTeardown = {}
    /\ ioError = FALSE

PROTOCOL_SEQUENCE == <<67, 80, 50>>

\* the connection engine right after Channel::connect and Sender::new
InitEngine ==
    /\ InitQuiet
    /\ loop = "running"
    /\ stage = "connected"
    /\ preamble = <<PROTOCOL_SEQUENCE>>

Init == InitEngine /\ arg = NoArg /\ ret = NotApplied

(***************************************************************************)
(* Sender::send (remote/member.rs) and Channel::send (remote/channel.rs).  *)
(* A call goes idle -> encoded -> first -> more -> ok, or ends in err      *)
(* (egress.send failed) or panicked (unwrap of None).                      *)
(***************************************************************************)
Outstanding(c) == pc[c] \in {"first", "more"}

\* a send that loads the sequencer and does not advance it
SenderSendStale(c, kind) ==
    /\ pc[c] = "idle"
    /\ \A d \in Calls : d < c => pc[d] # "idle"
    /\ req' = [req EXCEPT ![c] = MessageFromRequest(sequencer, kind)]
    /\ pc' = [pc EXCEPT ![c] = "encoded"]
    /\ UNCHANGED <<sequencer, msg, rx, txAlive, egress>>
    /\ UNCHANGED loopVars
    /\ UNCHANGED peerVars
    /\ UNCHANGED codecVars
    /\ UNCHANGED memberVars

\* sequencer.fetch_add(1), then (id, request).into()
SenderSend(c, kind) ==
    /\ pc[c] = "idle"
    /\ \A d \in Calls : d < c => pc[d] # "idle"
    /\ req' = [req EXCEPT ![c] = MessageFromRequest(sequencer, kind)]
    /\ sequencer' = sequencer + 1
    /\ pc' = [pc EXCEPT ![c] = "encoded"]
    /\ UNCHANGED <<msg, rx, txAlive, egress>>
    /\ UNCHANGED loopVars
    /\ UNCHANGED peerVars
    /\ UNCHANGED codecVars
    /\ UNCHANGED memberVars

\* an egress queue that accepts messages with its receiver gone
EgressOpenAlways == TRUE

\* the egress receiver lives as long as the spawned loop does
EgressOpen == loop = "running"

\* a send that also enters its own Responder into the table
ChannelSendEnqueueRegisters(c) ==
    /\ pc[c] = "encoded"
    /\ EgressOpen
    /\ egress' = Append(egress, [message |-> req[c], responder |-> c])
    /\ txAlive' = [txAlive EXCEPT ![c] = TRUE]
    /\ pc' = [pc EXCEPT ![c] = "first"]
    /\ correlations' = [k \in DOMAIN correlations \cup {req[c].id} |->
                            IF k = req[c].id THEN c ELSE correlations[k]]
    /\ UNCHANGED <<sequencer, req, msg, rx>>
    /\ UNCHANGED <<cur, wire, active_correlation, loop, inlog, atTeardown, ioError>>
    /\ UNCHANGED peerVars
    /\ UNCHANGED codecVars
    /\ UNCHANGED memberVars

\* mpsc::unbounded_channel(); self.egress.send((message, sender))?
ChannelSendEnqueue(c) ==
    /\ pc[c] = "encoded"
    /\ IF EgressOpen
       THEN /\ egress' = Append(egress, [message |-> req[c], responder |-> c])
            /\ txAlive' = [txAlive EXCEPT ![c] = TRUE]
            /\ pc' = [pc EXCEPT ![c] = "first"]
       ELSE /\ pc' = [pc EXCEPT ![c] = "err"]
            /\ UNCHANGED <<egress, txAlive>>
    /\ UNCHANGED <<sequencer, req, msg, rx>>
    /\ UNCHANGED loopVars
    /\ UNCHANGED peerVars
    /\ UNCHANGED codecVars
    /\ UNCHANGED memberVars

\* receiver.recv() is ready: a frame is queued, or every sender is gone
RecvReady(c) == rx[c] # <<>> \/ ~txAlive[c]

\* let first_frame = receiver.recv().await.unwrap(); Message::new(id(), type(), ..)
ChannelSendFirst(c) ==
    /\ pc[c] = "first"
    /\ RecvReady(c)
    /\ IF rx[c] # <<>> /\ Head(rx[c]).is_first
       THEN /\ msg' = [msg EXCEPT ![c] =
                          MessageNew(Head(rx[c]).id, Head(rx[c]).type, Head(rx[c]))]
            /\ rx' = [rx EXCEPT ![c] = Tail(@)]
            /\ pc' = [pc EXCEPT ![c] = "more"]
       ELSE /\ pc' = [pc EXCEPT ![c] = "panicked"]
            /\ rx' = [rx EXCEPT ![c] = <<>>]
            /\ UNCHANGED msg
    /\ UNCHANGED <<sequencer, req, txAlive, egress>>
    /\ UNCHANGED loopVars
    /\ UNCHANGED peerVars
    /\ UNCHANGED codecVars
    /\ UNCHANGED memberVars

\* while let Some(frame) = receiver.recv().await { message.add(frame) }; Ok(message)
ChannelSendMore(c) ==
    /\ pc[c] = "more"
    /\ RecvReady(c)
    /\ IF rx[c] # <<>>
       THEN /\ msg' = [msg EXCEPT ![c] = MessageAdd(@, Head(rx[c]))]
            /\ rx' = [rx EXCEPT ![c] = Tail(@)]
            /\ UNCHANGED pc
       ELSE /\ pc' = [pc EXCEPT ![c] = "ok"]
            /\ UNCHANGED <<msg, rx>>
    /\ UNCHANGED <<sequencer, req, txAlive, egress>>
    /\ UNCHANGED loopVars
    /\ UNCHANGED peerVars
    /\ UNCHANGED codecVars
    /\ UNCHANGED memberVars

(***************************************************************************)
(* The coordinating loop spawned by Channel::connect.                      *)
(***************************************************************************)
\* the task ends (return or panic): its locals are dropped, so every
\* Responder in the table, in the queue and in hand is dropped with them
\* a task that ended with its Responders still alive somewhere
TeardownKeepsResponders(how) ==
    /\ loop' = how
    /\ cur' = <<>>
    /\ egress' = <<>>
    /\ correlations' = EmptyTable
    /\ UNCHANGED txAlive
    /\ atTeardown' = {c \in Calls : Outstanding(c) /\ txAlive[c]}

Teardown(how) ==
    /\ loop' = how
    /\ cur' = <<>>
    /\ egress' = <<>>
    /\ correlations' = EmptyTable
    /\ txAlive' = [c \in Calls |-> FALSE]
    /\ atTeardown' = {c \in Calls : Outstanding(c) /\ txAlive[c]}

\* a loop that carried on after a failed read or write
IoIgnored ==
    /\ UNCHANGED <<loop, cur, egress, correlations, txAlive, atTeardown>>
    /\ ioError' = TRUE

\* `?` on a failed write, and Err(e) => return Err(e) on a failed read
IoFailed == Teardown("failed") /\ ioError' = TRUE

\* a loop that skipped the frame it could not place
ExpectIgnored == UNCHANGED <<loop, cur, egress, correlations, txAlive, atTeardown, ioError>>

\* .expect("missing correlation!") on None, or a panic inside Frame::from
ExpectFailed == Teardown("panicked") /\ UNCHANGED ioError

\* a loop that took the next event while a message was being written
AtEventsAnyTime == loop = "running"

\* the loop is suspended in events.next(), not inside the write loop
AtEvents == loop = "running" /\ cur = <<>>

\* a loop that took the newest queued message instead of the oldest
LoopEgressNewest ==
    /\ AtEvents
    /\ egress # <<>>
    /\ cur' = <<[message |-> egress[Len(egress)].message,
                 responder |-> egress[Len(egress)].responder,
                 next |-> 1]>>
    /\ egress' = SubSeq(egress, 1, Len(egress) - 1)
    /\ UNCHANGED <<wire, correlations, active_correlation, loop, inlog, atTeardown,
                   ioError>>
    /\ UNCHANGED <<rx, txAlive>>
    /\ UNCHANGED callVars
    /\ UNCHANGED peerVars
    /\ UNCHANGED codecVars
    /\ UNCHANGED memberVars

\* Events::poll_next: the egress queue is polled first
LoopEgress ==
    /\ AtEvents
    /\ egress # <<>>
    /\ cur' = <<[message |-> Head(egress).message,
                 responder |-> Head(egress).responder,
                 next |-> 1]>>
    /\ egress' = Tail(egress)
    /\ UNCHANGED <<wire, correlations, active_correlation, loop, inlog, atTeardown,
                   ioError>>
    /\ UNCHANGED <<rx, txAlive>>
    /\ UNCHANGED callVars
    /\ UNCHANGED peerVars
    /\ UNCHANGED codecVars
    /\ UNCHANGED memberVars

\* every payload marked final
IsFinalWriteAlways(message, next) == TRUE

\* frames.peek() is None
IsFinalWrite(message, next) == next = Len(message.frames)

TableInsert(table, id, responder) ==
    [k \in DOMAIN table \cup {id} |-> IF k = id THEN responder ELSE table[k]]

TableRemove(table, id) == [k \in DOMAIN table \ {id} |-> table[k]]

\* writer.write(frame.payload(is_final)).await succeeds; after the last
\* frame, correlations.insert(message.id(), responder)
LoopWrite ==
    /\ loop = "running"
    /\ cur # <<>>
    /\ LET w == cur[1]
           is_final == IsFinalWrite(w.message, w.next)
       IN  /\ wire' = Append(wire, [bytes |-> payload(w.message.frames[w.next], is_final),
                                    call |-> w.responder,
                                    idx |-> w.next])
           /\ IF w.next = Len(w.message.frames)
              THEN /\ correlations' = TableInsert(correlations, w.message.id, w.responder)
                   /\ cur' = <<>>
              ELSE /\ cur' = <<[w EXCEPT !.next = @ + 1]>>
                   /\ UNCHANGED correlations
    /\ UNCHANGED <<active_correlation, loop, inlog, atTeardown, ioError>>
    /\ UNCHANGED <<rx, txAlive, egress>>
    /\ UNCHANGED callVars
    /\ UNCHANGED peerVars
    /\ UNCHANGED codecVars
    /\ UNCHANGED memberVars

\* writer.write(..).await? fails: the loop returns the error
LoopWriteError ==
    /\ loop = "running"
    /\ cur # <<>>
    /\ IoFailed
    /\ UNCHANGED <<wire, active_correlation, inlog, rx>>
    /\ UNCHANGED callVars
    /\ UNCHANGED peerVars
    /\ UNCHANGED codecVars
    /\ UNCHANGED memberVars

\* Events::poll_next reaches the ingress stream only when egress is Pending
IngressPolled == AtEvents /\ egress = <<>>

\* Frame::from(frame_bytes, active_correlation == NO_CORRELATION)
ParseAsFirst == active_correlation = NO_CORRELATION

LogEntry(item, first, to) ==
    [bytes |-> item.bytes, resp |-> item.resp, idx |-> item.idx, n |-> item.n,
     first |-> first, to |-> to]

\* match responder.send(frame) { _ => {} }: a send to a sink whose receiver
\* was dropped returns Err, which is ignored
Forward(frame, to) ==
    IF pc[to] = "abandoned"
    THEN UNCHANGED rx
    ELSE rx' = [rx EXCEPT ![to] = Append(@, frame)]

LoopIngress ==
    /\ IngressPolled
    /\ inbound # <<>>
    /\ inbound' = Tail(inbound)
    /\ LET item  == Head(inbound)
           first == ParseAsFirst
       IN  IF FrameFromPanics(item.bytes, first)
           THEN /\ ExpectFailed
                /\ inlog' = Append(inlog, LogEntry(item, first, 0))
                /\ UNCHANGED <<rx, active_correlation>>
           ELSE LET frame == FrameFrom(item.bytes, first)
                    key   == IF frame.is_first THEN frame.id ELSE active_correlation
                IN  IF key \notin DOMAIN correlations
                    THEN \* .expect("missing correlation!")
                         /\ ExpectFailed
                         /\ active_correlation' = key
                         /\ inlog' = Append(inlog, LogEntry(item, first, 0))
                         /\ UNCHANGED rx
                    ELSE /\ Forward(frame, correlations[key])
                         /\ inlog' = Append(inlog, LogEntry(item, first, correlations[key]))
                         /\ IF frame.is_first
                            THEN /\ active_correlation' = key
                                 /\ UNCHANGED <<correlations, txAlive>>
                            ELSE IF is_flag_set(frame.flags, IS_FINAL_FLAG)
                            THEN /\ correlations' = TableRemove(correlations, key)
                                 /\ txAlive' = [txAlive EXCEPT ![correlations[key]] = FALSE]
                                 /\ active_correlation' = NO_CORRELATION
                            ELSE UNCHANGED <<correlations, txAlive, active_correlation>>
                         /\ UNCHANGED <<cur, egress, loop, atTeardown, ioError>>
    /\ UNCHANGED <<wire, answered, rogue>>
    /\ UNCHANGED callVars
    /\ UNCHANGED codecVars
    /\ UNCHANGED memberVars

\* the ingress stream yields Some(Err(e)): Err(e) => return Err(e)
LoopIngressError ==
    /\ IngressPolled
    /\ IoFailed
    /\ UNCHANGED <<wire, active_correlation, inlog, rx>>
    /\ UNCHANGED callVars
    /\ UNCHANGED peerVars
    /\ UNCHANGED codecVars
    /\ UNCHANGED memberVars

\* the ingress stream yields None: the while loop ends, Ok(())
LoopIngressEof ==
    /\ IngressPolled
    /\ inbound = <<>>
    /\ Teardown("done")
    /\ UNCHANGED ioError
    /\ UNCHANGED <<wire, active_correlation, inlog, rx>>
    /\ UNCHANGED callVars
    /\ UNCHANGED peerVars
    /\ UNCHANGED codecVars
    /\ UNCHANGED memberVars

(***************************************************************************)
(* The peer: it answers requests it has received in full, each answer a    *)
(* run of frames from the first frame through the final-marked frame.      *)
(***************************************************************************)
FullyWritten(c) ==
    \E i \in 1 .. Len(wire) : wire[i].call = c /\ wire[i].idx = Len(req[c].frames)

KindOfType(t) == CHOOSE k \in Kinds : RequestType(k) = t

\* contents of the frames after the first: empty (a marker frame), or
\* thirteen bytes that read as a type and the correlation id k
BodyIds == 0 .. 1
ContBodies == {<<>>} \cup {WriteLE(0, 4) \o WriteLE(k, 8) \o <<1>> : k \in BodyIds}

ResponseFrame(id, type, i, n, body) ==
    IF i = 1
    THEN payload(append_content(initial_frame(UNFRAGMENTED_MESSAGE, type, id), <<0, 36>>),
                 n = 1)
    ELSE payload(FrameNew(body, DEFAULT_FLAGS), i = n)

Response(id, type, n, body) ==
    [i \in 1 .. n |-> [bytes |-> ResponseFrame(id, type, i, n, body),
                       resp |-> id, idx |-> i, n |-> n]]

PeerRespond(c, n, body) ==
    /\ loop = "running"
    /\ pc[c] \notin {"idle", "encoded"}
    /\ FullyWritten(c)
    /\ req[c].id \notin answered
    /\ inbound' = inbound \o Response(req[c].id, ResponseType(KindOfType(req[c].type)), n, body)
    /\ answered' = answered \cup {req[c].id}
    /\ UNCHANGED rogue
    /\ UNCHANGED <<rx, txAlive, egress>>
    /\ UNCHANGED callVars
    /\ UNCHANGED loopVars
    /\ UNCHANGED codecVars
    /\ UNCHANGED memberVars

\* a single-frame message for an id no request carries
PeerUnsolicited ==
    /\ loop = "running"
    /\ ~rogue
    /\ rogue' = TRUE
    /\ inbound' = inbound \o Response(MaxCalls, PING_RESPONSE_TYPE, 1, <<>>)
    /\ UNCHANGED answered
    /\ UNCHANGED <<rx, txAlive, egress>>
    /\ UNCHANGED callVars
    /\ UNCHANGED loopVars
    /\ UNCHANGED codecVars
    /\ UNCHANGED memberVars

Next ==
    \/ \E c \in Calls, kind \in Kinds : SenderSend(c, kind)
    \/ \E c \in Calls : ChannelSendEnqueue(c)
    \/ \E c \in Calls : ChannelSendFirst(c)
    \/ \E c \in Calls : ChannelSendMore(c)
    \/ LoopEgress
    \/ LoopWrite
    \/ LoopWriteError
    \/ LoopIngress
    \/ LoopIngressError
    \/ LoopIngressEof
    \/ \E c \in Calls, n \in 1 .. MaxRespFrames, body \in ContBodies : PeerRespond(c, n, body)
    \/ PeerUnsolicited

Spec == Init /\ [][Next]_vars

(***************************************************************************)
(* The same connection with callers that may give up: the future of        *)
(* Channel::send is dropped at one of its await points, and its receiver   *)
(* with it.                                                                *)
(***************************************************************************)
ChannelSendAbandon(c) ==
    /\ pc[c] \in {"first", "more"}
    /\ pc' = [pc EXCEPT ![c] = "abandoned"]
    /\ rx' = [rx EXCEPT ![c] = <<>>]
    /\ msg' = [msg EXCEPT ![c] = NoMessage]
    /\ UNCHANGED <<sequencer, req, txAlive, egress>>
    /\ UNCHANGED loopVars
    /\ UNCHANGED peerVars
    /\ UNCHANGED codecVars
    /\ UNCHANGED memberVars

AbandonNext ==
    \/ Next
    \/ \E c \in Calls : ChannelSendAbandon(c)

AbandonSpec == Init /\ [][AbandonNext]_vars

(***************************************************************************)
(* The codec functions on their own: an input is drawn, the function is    *)
(* applied once, and its outcome is kept next to the input.                *)
(***************************************************************************)
FlagSamples == {DEFAULT_FLAGS, UNFRAGMENTED_MESSAGE, BitOr(UNFRAGMENTED_MESSAGE, IS_FINAL_FLAG)}
TypeSamples == {EXCEPTION_TYPE, PING_RESPONSE_TYPE, PN_GET_RESPONSE_TYPE, PING_REQUEST_TYPE,
                65535}
IdSamples == {0, 1, 256, 2147483647}

\* one replica timestamp entry: key (msb 3, lsb 4), value 5
EntryBytes == encode_uuid(UuidOf(3, 4)) \o WriteLE(5, 8)

\* what follows the type and the id in the first frame of a response
InitialBodies == {<<>>, <<0>>, <<0>> \o WriteLE(7, 8) \o WriteLE(1, 4)}
\* the frames after the first
RestFrames == {<<>>, <<FrameNew(<<>>, DEFAULT_FLAGS)>>, <<FrameNew(EntryBytes, DEFAULT_FLAGS)>>,
               <<FrameNew(EntryBytes \o <<0, 9>>, DEFAULT_FLAGS)>>,
               <<FrameNew(<<1>> \o Tail(EntryBytes), DEFAULT_FLAGS)>>}

\* the Message Channel::send builds from the frames of a response
ReceivedMessage(type, id, body, rest) ==
    LET first == FrameFrom(payload(append_content(
                               initial_frame(UNFRAGMENTED_MESSAGE, type, id), body), FALSE),
                           TRUE)
    IN  [id |-> first.id, type |-> first.type, frames |-> <<first>> \o rest]

TryFromArgs ==
    {[op |-> "try_from", kind |-> k, message |-> ReceivedMessage(t, 1, b, r)] :
        k \in Kinds, t \in TypeSamples, b \in InitialBodies, r \in RestFrames}

AccessorArgs ==
    {[op |-> "accessors", how |-> h, flags |-> f, type |-> t, id |-> i] :
        h \in {"initial_frame", "new", "from_first", "from_rest"},
        f \in FlagSamples, t \in TypeSamples, i \in IdSamples}

\* the frame an AccessorArgs input describes
BuiltFrame(a) ==
    LET bytes == WriteLE(a.flags, FLAGS_LENGTH) \o WriteLE(a.type, MESSAGE_TYPE_LENGTH)
                     \o WriteLE(a.id, CORRELATION_ID_LENGTH)
    IN  CASE a.how = "initial_frame" -> initial_frame(a.flags, a.type, a.id)
          [] a.how = "new" -> FrameNew(Tail(Tail(bytes)), a.flags)
          [] a.how = "from_first" -> FrameFrom(bytes, TRUE)
          [] a.how = "from_rest" -> FrameFrom(bytes, FALSE)

\* frames a decoder may meet: strings "a" and an invalid byte, a null frame,
\* begin and end markers, a port, one timestamp entry, one entry and a half
DecodeFrames ==
    {FrameNew(<<97>>, DEFAULT_FLAGS), FrameNew(<<255>>, DEFAULT_FLAGS),
     FrameNew(<<>>, IS_NULL_FLAG), FrameNew(<<>>, BEGIN_DATA_STRUCTURE_FLAG),
     FrameNew(<<>>, END_DATA_STRUCTURE_FLAG), FrameNew(WriteLE(5701, 4), DEFAULT_FLAGS),
     FrameNew(EntryBytes, DEFAULT_FLAGS), FrameNew(EntryBytes \o <<0, 9>>, DEFAULT_FLAGS)}

SeqsUpTo(S, n) == UNION {[1 .. k -> S] : k \in 0 .. n}

DecodeFns == {"string", "nullable_string", "nullable_const", "address",
              "replica_timestamp_list"}

\* an Address as test_decode_address lays it out: begin marker, port, host,
\* end marker; hosts "a" and "localhost"
PortSamples == {0, 5701, 65535, 16777216}
HostSamples == {<<97>>, <<108, 111, 99, 97, 108, 104, 111, 115, 116>>}
AddressFrames(host, port) ==
    <<FrameNew(<<>>, BEGIN_DATA_STRUCTURE_FLAG), FrameNew(WriteLE(port, 4), DEFAULT_FLAGS),
      FrameNew(host, DEFAULT_FLAGS), FrameNew(<<>>, END_DATA_STRUCTURE_FLAG)>>

\* an Address followed by nothing or by one more frame
AddressArgs ==
    {[op |-> "decode", fn |-> "address", frames |-> AddressFrames(h, p) \o rest] :
        h \in HostSamples, p \in PortSamples, rest \in SeqsUpTo(DecodeFrames, 1)}

DecodeArgs ==
    {[op |-> "decode", fn |-> f, frames |-> fs] :
        f \in DecodeFns, fs \in SeqsUpTo(DecodeFrames, MaxDecodeFrames)}
    \cup AddressArgs

DecodeBy(fn, frames) ==
    CASE fn = "string" -> decode_string(frames, 1)
      [] fn = "nullable_string" -> decode_nullable(frames, 1, "decode_string")
      [] fn = "nullable_const" -> decode_nullable(frames, 1, "decode_const")
      [] fn = "address" -> decode_address(frames, 1)
      [] fn = "replica_timestamp_list" -> decode_replica_timestamp_list(frames, 1)

\* strings as their UTF-8 bytes: "", "a", "ab", U+00E9, U+20AC
StringSamples == {<<>>, <<97>>, <<97, 98>>, <<195, 169>>, <<226, 130, 172>>}
OptionSamples == {[some |-> FALSE]} \cup {[some |-> TRUE, value |-> s] : s \in StringSamples}
ListSamples == SeqsUpTo(StringSamples, MaxListLen)

\* the messages the encoder tests start from
BaseMessages ==
    {MessageNew(1, 0, FrameNew(<<1, 2, 3, 4>>, DEFAULT_FLAGS)),
     MessageNew(1, 0, initial_frame(DEFAULT_FLAGS, 111, 1)),
     encode_string(MessageNew(1, 0, initial_frame(DEFAULT_FLAGS, 111, 1)), <<120>>)}

EncodeArgs ==
    {[op |-> "encode", fn |-> "string", message |-> m, string |-> s] :
        m \in BaseMessages, s \in StringSamples}
    \cup {[op |-> "encode", fn |-> "nullable_string", message |-> m, option |-> o] :
              m \in BaseMessages, o \in OptionSamples}
    \cup {[op |-> "encode", fn |-> "list_string", message |-> m, list |-> l] :
              m \in BaseMessages, l \in ListSamples}

EncodeBy(a) ==
    CASE a.fn = "string" -> encode_string(a.message, a.string)
      [] a.fn = "nullable_string" -> encode_nullable(a.message, a.option)
      [] a.fn = "list_string" -> encode_list(a.message, a.list)

\* the decoder of what EncodeBy wrote, from the first frame written; the
\* source has no decoder of lists
DecodeEncoded(fn, frames, pos) ==
    CASE fn = "string" -> decode_string(frames, pos)
      [] fn = "nullable_string" -> decode_nullable(frames, pos, "decode_string")
      [] fn = "list_string" -> NotApplied

AuthDecodeArgs ==
    {[op |-> "auth_decode", status |-> s, with_address |-> b] :
        s \in 0 .. 3, b \in BOOLEAN}

\* a frame on the wire: its flags and the bytes after the flags; the message
\* bytes are the frames one after the other, each behind its length
WireFrame(flags, body) == [flags |-> flags, body |-> body]

RECURSIVE WireBytes(_)
WireBytes(frames) ==
    IF frames = <<>> THEN <<>>
    ELSE WriteLE(FRAME_LENGTH + FLAGS_LENGTH + Len(Head(frames).body), FRAME_LENGTH)
             \o WriteLE(Head(frames).flags, FLAGS_LENGTH) \o Head(frames).body
             \o WireBytes(Tail(frames))

\* the six frames of should_convert_to_message_from_bytes
LiteralWire ==
    <<WireFrame(49152,
          <<1, 1, 0, 0, 0, 0, 0, 0, 0, 0, 0, 0, 0, 0, 0, 255, 73, 46, 192, 151, 157, 235,
            55, 19, 133, 184, 195, 217, 84, 214, 139, 1, 15, 1, 0, 0, 0, 46, 79, 120, 33,
            25, 80, 207, 133, 221, 8, 185, 204, 255, 148, 112, 133, 0>>),
      WireFrame(4096, <<>>),
      WireFrame(0, <<69, 22, 0, 0>>),
      WireFrame(0, <<49, 48, 46, 48, 46, 48, 46, 49, 57, 49>>),
      WireFrame(2048, <<>>),
      WireFrame(8192, <<53, 46, 48, 45, 83, 78, 65, 80, 83, 72, 79, 84>>)>>

FirstWireFrames ==
    {WireFrame(f, WriteLE(AUTH_RESPONSE_TYPE, MESSAGE_TYPE_LENGTH)
                      \o WriteLE(1, CORRELATION_ID_LENGTH) \o b) :
        f \in {UNFRAGMENTED_MESSAGE, BitOr(UNFRAGMENTED_MESSAGE, IS_FINAL_FLAG)},
        b \in {<<>>, <<7>>}}
RestWireFrames ==
    {WireFrame(DEFAULT_FLAGS, <<97>>), WireFrame(IS_FINAL_FLAG, <<98>>),
     WireFrame(BEGIN_DATA_STRUCTURE_FLAG, <<>>),
     WireFrame(BitOr(END_DATA_STRUCTURE_FLAG, IS_FINAL_FLAG), <<>>)}

FromBytesArgs ==
    {[op |-> "from_bytes", wire |-> <<f>> \o r] :
        f \in FirstWireFrames, r \in SeqsUpTo(RestWireFrames, MaxWireFrames - 1)}
    \cup {[op |-> "from_bytes", wire |-> LiteralWire]}

\* eb66c416-4739-465b-9af3-9dc33ed8eef9 and 11141552-8456-4b0f-aa95-559c81a19f48
\* (test_encode_uuid, test_decode_uuid), the nil uuid and two small ones
UuidSamples ==
    {<<235, 102, 196, 22, 71, 57, 70, 91, 154, 243, 157, 195, 62, 216, 238, 249>>,
     <<17, 20, 21, 82, 132, 86, 75, 15, 170, 149, 85, 156, 129, 161, 159, 72>>,
     UuidOf(0, 0), UuidOf(1, 2), UuidOf(2, 1)}

\* a uuid to encode; the bytes to decode are the encoded ones with the given
\* marker byte, cut to the given length
UuidArgs ==
    {[op |-> "uuid", uuid |-> u, marker |-> m, cut |-> c] :
        u \in UuidSamples, m \in {0, 1, 255}, c \in {1, UUID_BYTES, UUID_BYTES + 1}}

\* flag words: every combination of bits 10 to 15, and those of test_is_flag_set
FlagWords == {1024 * k : k \in 0 .. 63} \cup {65535, 12288}
MaskWords == {DEFAULT_FLAGS, IS_NULL_FLAG, END_DATA_STRUCTURE_FLAG, BEGIN_DATA_STRUCTURE_FLAG,
              IS_FINAL_FLAG, UNFRAGMENTED_MESSAGE,
              BitOr(BEGIN_DATA_STRUCTURE_FLAG, END_DATA_STRUCTURE_FLAG), 65535}

PredicateArgs ==
    {[op |-> "predicates", flags |-> f, mask |-> m] : f \in FlagWords, m \in MaskWords}

FromRequestArgs ==
    {[op |-> "from_request", kind |-> k, id |-> i] :
        k \in {"ping", "get", "auth"}, i \in IdSamples}

\* frames as the constructors build them: Frame::new, and
\* Frame::initial_frame followed by append_content
RoundTripFlags == FlagSamples \cup {IS_NULL_FLAG, 65535}
ContentSamples == {<<>>, <<0, 36>>, EntryBytes}
FrameArgs ==
    {[op |-> "frame_roundtrip", how |-> h, flags |-> f, type |-> t, id |-> i, content |-> c] :
        h \in {"initial_frame", "new"}, f \in RoundTripFlags, t \in TypeSamples,
        i \in IdSamples, c \in ContentSamples}

ArgFrame(a) ==
    IF a.how = "initial_frame"
    THEN append_content(initial_frame(a.flags, a.type, a.id), a.content)
    ELSE FrameNew(a.content, a.flags)

\* lists of replica timestamp entries: a key and a value each
EntrySamples ==
    {[key |-> k, value |-> v] :
        k \in {UuidOf(3, 4),
                <<235, 102, 196, 22, 71, 57, 70, 91, 154, 243, 157, 195, 62, 216, 238, 249>>},
        v \in {0, 1001, 2147483647}}
ReplicaListArgs ==
    {[op |-> "replica_list", entries |-> es] : es \in SeqsUpTo(EntrySamples, MaxListLen)}

\* the Message of test_decode_replica_timestamp_list before the list is added
ReplicaListBase == MessageNew(1, 0, FrameNew(<<1, 2, 3, 4>>, DEFAULT_FLAGS))

CodecArgs ==
    TryFromArgs \cup AccessorArgs \cup DecodeArgs \cup EncodeArgs \cup AuthDecodeArgs
        \cup FromBytesArgs \cup FromRequestArgs \cup UuidArgs \cup PredicateArgs
        \cup FrameArgs \cup ReplicaListArgs

CodecInit == InitEngine /\ arg \in CodecArgs /\ ret = NotApplied

\* an input of the given operation whose function has not been applied yet
Pending(op) == arg.op = op /\ ret = NotApplied

ApplyTryFrom ==
    /\ Pending("try_from")
    /\ ret' = try_from(arg.message, arg.kind)
    /\ UNCHANGED arg
    /\ UNCHANGED engineVars
    /\ UNCHANGED memberVars

ApplyAccessors ==
    /\ Pending("accessors")
    /\ ret' = [tag |-> "accessors",
               id |-> Frame_id(BuiltFrame(arg)),
               type |-> Frame_type(BuiltFrame(arg))]
    /\ UNCHANGED arg
    /\ UNCHANGED engineVars
    /\ UNCHANGED memberVars

ApplyDecode ==
    /\ Pending("decode")
    /\ ret' = DecodeBy(arg.fn, arg.frames)
    /\ UNCHANGED arg
    /\ UNCHANGED engineVars
    /\ UNCHANGED memberVars

\* encode onto the message, then decode from the first frame written
ApplyEncode ==
    /\ Pending("encode")
    /\ LET message == EncodeBy(arg)
       IN  ret' = [tag |-> "encoded",
                   message |-> message,
                   decoded |-> DecodeEncoded(arg.fn, message.frames,
                                             Len(arg.message.frames) + 1)]
    /\ UNCHANGED arg
    /\ UNCHANGED engineVars
    /\ UNCHANGED memberVars

\* decode_response of messaging/authentication.rs on a response message
ApplyAuthDecode ==
    /\ Pending("auth_decode")
    /\ ret' = auth_decode_response(
                  [id |-> 1, type |-> AUTH_RESPONSE_TYPE,
                   frames |-> AuthResponseFrames(1, arg.status, arg.with_address)])
    /\ UNCHANGED arg
    /\ UNCHANGED engineVars
    /\ UNCHANGED memberVars

\* message_bytes.into() on the bytes of the frames
ApplyFromBytes ==
    /\ Pending("from_bytes")
    /\ ret' = MessageFromBytes(WireBytes(arg.wire))
    /\ UNCHANGED arg
    /\ UNCHANGED engineVars
    /\ UNCHANGED memberVars

\* (id, request).into()
ApplyFromRequest ==
    /\ Pending("from_request")
    /\ ret' = [tag |-> "message", message |-> MessageFromRequest(arg.id, arg.kind)]
    /\ UNCHANGED arg
    /\ UNCHANGED engineVars
    /\ UNCHANGED memberVars

\* encode_uuid into an empty buffer, and decode_uuid on the bytes to decode
ApplyUuid ==
    /\ Pending("uuid")
    /\ LET fields == encode_uuid(arg.uuid)
       IN  ret' = [tag |-> "uuid",
                   fields |-> fields,
                   decoded |-> decode_uuid(<<arg.marker>> \o SubSeq(fields, 2, arg.cut), 0)]
    /\ UNCHANGED arg
    /\ UNCHANGED engineVars
    /\ UNCHANGED memberVars

\* the predicates of a frame built with the flags, and is_flag_set
ApplyPredicates ==
    /\ Pending("predicates")
    /\ LET frame == FrameNew(<<>>, arg.flags)
       IN  ret' = [tag |-> "predicates",
                   is_begin_frame |-> is_begin_frame(frame),
                   is_end_frame |-> is_end_frame(frame),
                   is_null_frame |-> is_null_frame(frame),
                   is_flag_set |-> is_flag_set(arg.flags, arg.mask)]
    /\ UNCHANGED arg
    /\ UNCHANGED engineVars
    /\ UNCHANGED memberVars

\* Frame::from(f.payload(is_final), f.is_first)
ApplyFrameRoundTrip ==
    /\ Pending("frame_roundtrip")
    /\ ret' = [tag |-> "frame_roundtrip",
               plain |-> FrameFrom(payload(ArgFrame(arg), FALSE), ArgFrame(arg).is_first),
               final |-> FrameFrom(payload(ArgFrame(arg), TRUE), ArgFrame(arg).is_first)]
    /\ UNCHANGED arg
    /\ UNCHANGED engineVars
    /\ UNCHANGED memberVars

\* encode_replica_timestamp_list onto the message; iter.next() over the
\* first frame, then decode_replica_timestamp_list
ApplyReplicaList ==
    /\ Pending("replica_list")
    /\ LET message == encode_replica_timestamp_list(ReplicaListBase, arg.entries)
       IN  ret' = [tag |-> "replica_list",
                   message |-> message,
                   decoded |-> decode_replica_timestamp_list(
                                   message.frames, IterNext(message.frames, 1))]
    /\ UNCHANGED arg
    /\ UNCHANGED engineVars
    /\ UNCHANGED memberVars

CodecNext ==
    \/ ApplyReplicaList
    \/ ApplyFrameRoundTrip
    \/ ApplyPredicates
    \/ ApplyUuid
    \/ ApplyFromRequest
    \/ ApplyFromBytes
    \/ ApplyTryFrom
    \/ ApplyAccessors
    \/ ApplyDecode
    \/ ApplyEncode
    \/ ApplyAuthDecode

CodecSpec == CodecInit /\ [][CodecNext]_vars

(***************************************************************************)
(* Member::connect (remote/member.rs): Channel::connect, Sender::new, one  *)
(* authentication request through Sender::send, and the match on the      *)
(* status of the response.  Call 1 is the authentication call.             *)
(***************************************************************************)
MemberInit ==
    /\ InitQuiet
    /\ loop = "unconnected"
    /\ stage = "start"
    /\ preamble = <<>>
    /\ arg = NoArg
    /\ ret = NotApplied

unspawnedVars == <<sequencer, pc, req, msg, rx, txAlive, egress, cur, wire, correlations,
                   active_correlation, inbound, answered, rogue, inlog, atTeardown,
                   ioError>>

\* TcpStream::connect(address).await? fails
TcpConnectFails ==
    /\ stage = "start"
    /\ stage' = "CommunicationFailure"
    /\ UNCHANGED <<preamble, loop>>
    /\ UNCHANGED unspawnedVars
    /\ UNCHANGED codecVars

\* stream.write_all(&PROTOCOL_SEQUENCE).await? fails after some of the bytes
PreambleWriteFails ==
    /\ stage = "start"
    /\ \E n \in 0 .. Len(PROTOCOL_SEQUENCE) - 1 :
          preamble' = Append(preamble, SubSeq(PROTOCOL_SEQUENCE, 1, n))
    /\ stage' = "CommunicationFailure"
    /\ UNCHANGED loop
    /\ UNCHANGED unspawnedVars
    /\ UNCHANGED codecVars

\* a connect that spawns the loop and writes no preamble
ChannelConnectSilent ==
    /\ stage = "start"
    /\ loop' = "running"
    /\ stage' = "connected"
    /\ UNCHANGED preamble
    /\ UNCHANGED unspawnedVars
    /\ UNCHANGED codecVars

\* Channel::connect succeeds: the preamble is written, the loop is spawned;
\* then Sender::new(channel)
ChannelConnect ==
    /\ stage = "start"
    /\ preamble' = Append(preamble, PROTOCOL_SEQUENCE)
    /\ loop' = "running"
    /\ stage' = "connected"
    /\ UNCHANGED unspawnedVars
    /\ UNCHANGED codecVars

\* sender.send(request) with the AuthenticationRequest
MemberAuthenticate == stage = "connected" /\ SenderSend(1, "auth")

AuthStatuses == 0 .. 4

\* AuthenticationResponse::status
AuthenticationStatus(status) ==
    CASE status = 0 -> "Authenticated"
      [] status = 1 -> "CredentialsFailed"
      [] status = 2 -> "SerializationVersionMismatch"
      [] status = 3 -> "NotAllowedInCluster"
      [] OTHER -> "panic"

\* what Member::connect ends with, given how Channel::send ended
ConnectResult(how, message) ==
    IF how = "err" THEN "CommunicationFailure"
    ELSE IF how = "panicked" THEN "panicked"
    ELSE LET r == try_from(message, "auth")
         IN  IF r.tag = "panic" THEN "panicked"
             ELSE IF r.tag = "Err" THEN "ServerFailure"
             ELSE LET status == AuthenticationStatus(r.value.status)
                  IN  IF status = "panic" THEN "panicked"
                      ELSE IF status # "Authenticated" THEN "AuthenticationFailure"
                      ELSE IF r.value.address.some THEN "Member"
                      ELSE "panicked"

\* the match on the result of sender.send(request).await
MemberFinish ==
    /\ stage = "connected"
    /\ pc[1] \in {"ok", "err", "panicked"}
    /\ stage' = ConnectResult(pc[1], msg[1])
    /\ UNCHANGED preamble
    /\ UNCHANGED engineVars
    /\ UNCHANGED codecVars

AuthResponse(id, status, with_address) ==
    LET frames == AuthResponseFrames(id, status, with_address)
        n == Len(frames)
    IN  [i \in 1 .. n |-> [bytes |-> payload(frames[i], i = n),
                           resp |-> id, idx |-> i, n |-> n]]

PeerAuthRespond(status, with_address) ==
    /\ loop = "running"
    /\ pc[1] \notin {"idle", "encoded"}
    /\ FullyWritten(1)
    /\ req[1].id \notin answered
    /\ inbound' = inbound \o AuthResponse(req[1].id, status, with_address)
    /\ answered' = answered \cup {req[1].id}
    /\ UNCHANGED rogue
    /\ UNCHANGED <<rx, txAlive, egress>>
    /\ UNCHANGED callVars
    /\ UNCHANGED loopVars
    /\ UNCHANGED codecVars
    /\ UNCHANGED memberVars

MemberNext ==
    \/ TcpConnectFails
    \/ PreambleWriteFails
    \/ ChannelConnect
    \/ MemberAuthenticate
    \/ ChannelSendEnqueue(1)
    \/ ChannelSendFirst(1)
    \/ ChannelSendMore(1)
    \/ LoopEgress
    \/ LoopWrite
    \/ LoopWriteError
    \/ LoopIngress
    \/ LoopIngressError
    \/ LoopIngressEof
    \/ \E status \in AuthStatuses, with_address \in BOOLEAN :
          PeerAuthRespond(status, with_address)
    \/ MemberFinish

MemberSpec == MemberInit /\ [][MemberNext]_vars

(***************************************************************************)
(* Every way a Message comes to be: the calls of a connection, which build *)
(* requests and gather responses, and the two conversions applied to an    *)
(* input of their own.                                                     *)
(***************************************************************************)
MessagesInit ==
    /\ InitEngine
    /\ arg \in {NoArg} \cup FromBytesArgs \cup FromRequestArgs
    /\ ret = NotApplied

MessagesNext ==
    \/ arg = NoArg /\ Next
    \/ ApplyFromBytes
    \/ ApplyFromRequest

MessagesSpec == MessagesInit /\ [][MessagesNext]_vars

(***************************************************************************)
(* Notions used by the properties.                                         *)
(***************************************************************************)
FlagsOf(bytes) == ReadLE(SubSeq(bytes, 1, FLAGS_LENGTH))

FinalMarked(bytes) == is_flag_set(FlagsOf(bytes), IS_FINAL_FLAG)

Started(c) == pc[c] \notin {"idle", "encoded"}

\* the loop has read the final-marked frame of the response to id
FinalRead(id) ==
    \E i \in 1 .. Len(inlog) : inlog[i].resp = id /\ inlog[i].idx = inlog[i].n

\* the entries of inlog that were forwarded to call c, oldest first
RECURSIVE ForwardedTo(_, _)
ForwardedTo(c, log) ==
    IF log = <<>> THEN <<>>
    ELSE IF Head(log).to = c
         THEN <<Head(log)>> \o ForwardedTo(c, Tail(log))
         ELSE ForwardedTo(c, Tail(log))

FramesOf(entries) == [i \in 1 .. Len(entries) |-> FrameFrom(entries[i].bytes, entries[i].first)]

(***************************************************************************)
(* C1: with distinct correlation ids and the peer returning complete       *)
(* responses in any order, every frame the loop forwards to a call's sink  *)
(* belongs to the response carrying that call's id, and a call that        *)
(* returns a Message returns one whose id is the id of its own request.    *)
(***************************************************************************)
C1_OwnResponseOnly ==
    ~rogue =>
        /\ \A i \in 1 .. Len(inlog) :
              inlog[i].to # 0 => inlog[i].resp = req[inlog[i].to].id
        /\ \A c \in Calls : pc[c] = "ok" => msg[c].id = req[c].id

(***************************************************************************)
(* C2: a call whose request was written and whose complete response was   *)
(* read by the loop returns that response: in every such state the call    *)
(* has returned the response's frames or its next receive is ready, for a  *)
(* response of any length, a single final-marked first frame included.     *)
(***************************************************************************)
ResponseFrames(id) ==
    LET own == SelectSeq(inlog, LAMBDA e : e.resp = id)
    IN  [i \in 1 .. Len(own) |-> FrameFrom(own[i].bytes, own[i].idx = 1)]

C2_ReturnsResponse ==
    \A c \in Calls :
        (Started(c) /\ FinalRead(req[c].id)) =>
            \/ pc[c] = "ok" /\ msg[c].frames = ResponseFrames(req[c].id)
            \/ pc[c] \in {"first", "more"} /\ RecvReady(c)

(***************************************************************************)
(* C3: the entry of an id is in the table from its registration until the  *)
(* final-marked frame of its response is processed and absent afterwards;  *)
(* when the final frame of every registered request has been processed the *)
(* table is empty and the cursor is cleared.                               *)
(***************************************************************************)
Registered(c) == Started(c) /\ FullyWritten(c)

C3_EntryUntilFinal ==
    loop = "running" =>
        /\ \A c \in Calls :
              Registered(c) => (req[c].id \in DOMAIN correlations <=> ~FinalRead(req[c].id))
        /\ (\A c \in Calls : Registered(c) => FinalRead(req[c].id)) =>
              (correlations = EmptyTable /\ active_correlation = NO_CORRELATION)

(***************************************************************************)
(* C4: an inbound frame is parsed as a first frame exactly when it is the  *)
(* first frame ever received or directly follows a final-marked frame, for *)
(* every correlation id the sequencer assigns, 0 included; every other     *)
(* frame is parsed as a non-first frame.                                   *)
(***************************************************************************)
C4_FirstAfterFinal ==
    \A i \in 1 .. Len(inlog) :
        inlog[i].first <=> (i = 1 \/ FinalMarked(inlog[i - 1].bytes))

(***************************************************************************)
(* C5: on the wire the frames of one outgoing Message appear in the        *)
(* Message's frame order and contiguously: after a frame that is not the   *)
(* last of its Message comes the next frame of the same Message, and a new *)
(* Message starts only after the last frame of the one before it.          *)
(***************************************************************************)
C5_ContiguousInOrder ==
    /\ wire # <<>> => wire[1].idx = 1
    /\ \A i \in 1 .. Len(wire) :
          SubSeq(wire[i].bytes, FLAGS_LENGTH + 1, Len(wire[i].bytes))
              = req[wire[i].call].frames[wire[i].idx].content
    /\ \A i \in 1 .. Len(wire) - 1 :
          IF wire[i].idx < Len(req[wire[i].call].frames)
          THEN wire[i + 1].call = wire[i].call /\ wire[i + 1].idx = wire[i].idx + 1
          ELSE wire[i + 1].call # wire[i].call /\ wire[i + 1].idx = 1

\* a second caller's Message is queued while a Message is half written
C5_Witness ==
    /\ cur # <<>>
    /\ cur[1].next > 1
    /\ Len(wire) >= cur[1].next - 1
    /\ wire[Len(wire)].call = cur[1].responder
    /\ egress # <<>>
    /\ Head(egress).responder # cur[1].responder

(***************************************************************************)
(* C6: of the wire payloads of an outgoing Message only the last carries   *)
(* the final-message bit; a single-frame request goes out with flags       *)
(* 0xE000, and payload(false) leaves the stored flags 0xC000.              *)
(***************************************************************************)
C6_FinalBitOnLastOnly ==
    \A i \in 1 .. Len(wire) :
        LET m == req[wire[i].call]
        IN  /\ FinalMarked(wire[i].bytes) <=> wire[i].idx = Len(m.frames)
            /\ Len(m.frames) = 1 => FlagsOf(wire[i].bytes) = 57344
            /\ FlagsOf(payload(m.frames[1], FALSE)) = 49152

C6_Witness ==
    \E c, d \in Calls :
        /\ Started(c) /\ FullyWritten(c) /\ Len(req[c].frames) = 3
        /\ Started(d) /\ FullyWritten(d) /\ Len(req[d].frames) = 1

(***************************************************************************)
(* C7: the Message a send call returns is the reassembly of one response:  *)
(* its frames are the frames forwarded to the call's sink in arrival       *)
(* order, they are the frames of a single response starting with that      *)
(* response's initial frame, and its id and type are those of that frame.  *)
(***************************************************************************)
C7_ReassemblyOfOneResponse ==
    ~rogue =>
        \A c \in Calls :
            pc[c] = "ok" =>
                LET fw == ForwardedTo(c, inlog)
                IN  /\ msg[c].frames = FramesOf(fw)
                    /\ fw[1].idx = 1
                    /\ \A i \in 1 .. Len(fw) : fw[i].resp = fw[1].resp /\ fw[i].idx = i
                    /\ msg[c].id = msg[c].frames[1].id
                    /\ msg[c].type = msg[c].frames[1].type

(***************************************************************************)
(* C8: when an inbound first frame carries a correlation id with no entry  *)
(* in the table, the loop fails fast: the frame reaches no sink, the loop  *)
(* ends, and afterwards no egress or ingress event is processed.           *)
(***************************************************************************)
C8_DesyncStep ==
    /\ loop = "running"
    /\ Len(inlog') = Len(inlog) + 1
    /\ LET e == inlog'[Len(inlog')]
       IN  /\ e.first
           /\ ~FrameFromPanics(e.bytes, TRUE)
           /\ FrameFrom(e.bytes, TRUE).id \notin DOMAIN correlations

C9_TeardownReportsError ==
    \A c \in atTeardown : pc[c] \notin {"ok", "panicked"}

(***************************************************************************)
(* C10: an I/O error on a socket write or on a read of the inbound stream  *)
(* ends the loop: after it no frame is written to the socket and no        *)
(* inbound frame is forwarded to a sink.                                   *)
(***************************************************************************)
C10_IoErrorEndsLoop ==
    [][ioError' =>
          /\ loop' = "failed"
          /\ ioError =>
                /\ wire' = wire
                /\ inlog' = inlog
                /\ \A c \in Calls : Len(rx'[c]) <= Len(rx[c])]_vars

\* a write failed in the middle of a Message, with inbound frames unread
C10_Witness ==
    /\ ioError
    /\ inbound # <<>>
    /\ wire # <<>>
    /\ wire[Len(wire)].idx < Len(req[wire[Len(wire)].call].frames)

C12_TypeMismatchIsError ==
    (/\ arg.op = "try_from"
     /\ ret # NotApplied
     /\ arg.message.type \notin {ResponseType(arg.kind), EXCEPTION_TYPE})
        => ret.tag = "Err"

(***************************************************************************)
(* C13: a Message of the generic failure type, when another type was       *)
(* expected, converts to Err(ServerFailure), never to a typed value and    *)
(* never to a crash; a Message of the expected type converts to Ok with    *)
(* the value the operation's decoder produces.                             *)
(***************************************************************************)
C13_FailureTypeAndExpectedType ==
    (arg.op = "try_from" /\ ret # NotApplied) =>
        /\ (arg.message.type = EXCEPTION_TYPE /\ ResponseType(arg.kind) # EXCEPTION_TYPE)
              => ret = [tag |-> "Err", error |-> "ServerFailure"]
        /\ (arg.message.type = ResponseType(arg.kind)
                /\ Decoder(arg.kind, arg.message).tag = "value")
              => ret = [tag |-> "Ok", value |-> Decoder(arg.kind, arg.message).value]

C13_Witness ==
    /\ arg.op = "try_from"
    /\ arg.kind = "get"
    /\ arg.message.type = EXCEPTION_TYPE
    /\ Len(arg.message.frames) = 2
    /\ ret.tag = "Err"

(***************************************************************************)
(* C14: id() and r#type() of a frame built by initial_frame return the id  *)
(* and the type it was built with; on a frame built by Frame::new or by    *)
(* Frame::from with is_first = false both accessors panic, and so never    *)
(* return a default.                                                       *)
(***************************************************************************)
C14_AccessorsOnlyOnInitialFrame ==
    (arg.op = "accessors" /\ ret # NotApplied) =>
        /\ arg.how \in {"initial_frame", "from_first"} =>
              ret.id = Returned(arg.id) /\ ret.type = Returned(arg.type)
        /\ arg.how \in {"new", "from_rest"} => ret.id = Panic /\ ret.type = Panic

C14_Witness ==
    /\ arg.op = "accessors"
    /\ arg.how = "from_rest"
    /\ arg.id = 1
    /\ ret # NotApplied
    /\ ret.id = Panic

(***************************************************************************)
(* C15: the ids handed to successive Sender::send calls are 0, 1, 2, ...   *)
(* in the order of the calls, the sequencer counts the calls made, the id  *)
(* is the one encoded in the request's initial frame, and no two calls     *)
(* hold the same id, however the calls interleave.                         *)
(***************************************************************************)
C15_SequencerIds ==
    /\ sequencer = Cardinality({c \in Calls : pc[c] # "idle"})
    /\ \A c \in Calls :
          pc[c] # "idle" =>
              /\ req[c].id = c - 1
              /\ Frame_id(req[c].frames[1]) = Returned(c - 1)
              /\ ReadAt(req[c].frames[1].content, MESSAGE_TYPE_LENGTH,
                        CORRELATION_ID_LENGTH) = c - 1
    /\ \A c, d \in Calls :
          (pc[c] # "idle" /\ pc[d] # "idle" /\ c # d) => req[c].id # req[d].id

\* the second call takes its id while the first has not enqueued its request
C15_Witness == pc[1] = "encoded" /\ pc[2] = "first" /\ sequencer = MaxCalls

(***************************************************************************)
(* C19: a decode call on malformed input (invalid UTF-8 in a string frame, *)
(* truncated content, a frame sequence that ends before the expected       *)
(* frame) fails; it never returns a value.                                 *)
(***************************************************************************)
Malformed(fn, frames) ==
    CASE fn = "string" -> frames = <<>> \/ ~ValidUtf8(frames[1].content)
      [] fn \in {"nullable_string", "nullable_const"} ->
            \/ frames = <<>>
            \/ fn = "nullable_string" /\ ~is_null_frame(frames[1])
                                      /\ ~ValidUtf8(frames[1].content)
      [] fn = "address" ->
            \/ Len(frames) < 4
            \/ Len(frames[2].content) # 4
            \/ ~ValidUtf8(frames[3].content)
      [] fn = "replica_timestamp_list" ->
            \/ frames = <<>>
            \/ Len(frames[1].content) % REPLICA_TIMESTAMP_ENTRY_SIZE # 0

C19_MalformedNeverDefaults ==
    (arg.op = "decode" /\ ret # NotApplied /\ Malformed(arg.fn, arg.frames))
        => ret.tag # "value"

(***************************************************************************)
(* C20: decode_nullable on a frame sequence with no remaining frame        *)
(* returns None and does not invoke the element decoder; on a sequence     *)
(* whose next frame is not a null frame it returns Some of the element     *)
(* decoder's result.                                                       *)
(***************************************************************************)
C20_DecodeNullable ==
    (arg.op = "decode" /\ ret # NotApplied
        /\ arg.fn \in {"nullable_string", "nullable_const"}) =>
        /\ arg.frames = <<>> => ret = Returned([some |-> FALSE, pos |-> 1])
        /\ (arg.frames # <<>> /\ ~is_null_frame(arg.frames[1])) =>
              LET r == IF arg.fn = "nullable_const" THEN decode_const(arg.frames, 1)
                       ELSE decode_string(arg.frames, 1)
              IN  IF r.tag = "panic" THEN ret = Panic
                  ELSE ret = Returned([some |-> TRUE, value |-> r.value.value,
                                       pos |-> r.value.pos])

C20_Witness ==
    /\ arg.op = "decode"
    /\ arg.fn = "nullable_const"
    /\ arg.frames = <<>>
    /\ ret = Returned([some |-> FALSE, pos |-> 1])

(***************************************************************************)
(* C18: the correlation table, the cursor and the socket change only in    *)
(* steps of the coordinating loop; a step of a caller's send changes the   *)
(* egress queue and that caller's own sink at most, and leaves the table,  *)
(* the cursor, the socket and every other caller's sink as they were.      *)
(***************************************************************************)
CallerStepOf(c) == pc'[c] # pc[c] \/ msg'[c] # msg[c] \/ req'[c] # req[c]

C18_LoopOwnsTable ==
    [][/\ \A c \in Calls :
             CallerStepOf(c) =>
                 /\ correlations' = correlations
                 /\ active_correlation' = active_correlation
                 /\ wire' = wire
                 /\ cur' = cur
                 /\ \A d \in Calls \ {c} : rx'[d] = rx[d] /\ txAlive'[d] = txAlive[d]
       /\ (correlations' # correlations \/ active_correlation' # active_correlation
              \/ wire' # wire) =>
                 /\ loop = "running"
                 /\ UNCHANGED <<sequencer, pc, req, msg>>
                 /\ UNCHANGED <<answered, rogue>>]_vars

\* a caller has taken a frame while the table, the cursor and the other
\* caller's sink are in use
C18_Witness ==
    \E c, d \in Calls :
        /\ c # d
        /\ pc[c] = "more"
        /\ rx[d] # <<>>
        /\ DOMAIN correlations # {}
        /\ active_correlation # NO_CORRELATION
        /\ wire # <<>>

(***************************************************************************)
(* C16: the three bytes of the protocol identifier are written to the      *)
(* socket before any framed traffic and once per connection: the loop does *)
(* not exist, and no frame is on the wire, unless the one unframed write   *)
(* so far is the whole identifier.                                         *)
(***************************************************************************)
C16_PreambleFirstAndOnce ==
    /\ Len(PROTOCOL_SEQUENCE) = 3
    /\ Len(preamble) <= 1
    /\ loop # "unconnected" => preamble = <<PROTOCOL_SEQUENCE>>
    /\ wire # <<>> => preamble = <<PROTOCOL_SEQUENCE>>
    /\ stage = "start" => preamble = <<>> /\ wire = <<>>

C16_Witness ==
    /\ preamble = <<PROTOCOL_SEQUENCE>>
    /\ Len(wire) > 1
    /\ inlog # <<>>

(***************************************************************************)
(* C17: Member::connect makes one authentication exchange, the first       *)
(* message on the connection, with no other request written before it      *)
(* completes; it returns a Member only for the status Authenticated, and   *)
(* AuthenticationFailure for every other status of the response.           *)
(***************************************************************************)
ConnectEnded == stage \notin {"start", "connected"}

\* the status byte of the response the peer sent, read off its first frame
StatusSent ==
    inlog[1].bytes[FLAGS_LENGTH + FIXED_FIELD_OFFSET + 1]

C17_AuthenticationExchange ==
    /\ sequencer <= 1
    /\ wire # <<>> =>
          ReadAt(wire[1].bytes, FLAGS_LENGTH, MESSAGE_TYPE_LENGTH) = AUTH_REQUEST_TYPE
    /\ \A i \in 1 .. Len(wire) : wire[i].call = 1
    /\ (ConnectEnded /\ answered # {} /\ ~ioError /\ inlog # <<>>) =>
          IF StatusSent = 0 THEN stage = "Member" ELSE stage = "AuthenticationFailure"
    /\ stage = "Member" => inlog # <<>> /\ StatusSent = 0

(***************************************************************************)
(* C21: encode_string appends exactly one frame, with default flags, whose *)
(* content is the UTF-8 bytes of the string and nothing else (no length    *)
(* prefix, no terminator); decode_string on that frame returns the string  *)
(* and moves the frame cursor one frame on.                                *)
(***************************************************************************)
C21_StringRoundTrip ==
    (arg.op = "encode" /\ arg.fn = "string" /\ ret # NotApplied) =>
        LET before == arg.message.frames
            after  == ret.message.frames
            n      == Len(before)
        IN  /\ Len(after) = n + 1
            /\ SubSeq(after, 1, n) = before
            /\ after[n + 1].flags = 0
            /\ ~after[n + 1].is_first
            /\ after[n + 1].content = arg.string
            /\ Len(after[n + 1].content) = Len(arg.string)
            /\ ret.decoded = Returned([value |-> arg.string, pos |-> n + 2])

\* a three-byte character, encoded after two frames
C21_Witness ==
    /\ arg.op = "encode"
    /\ arg.fn = "string"
    /\ arg.string = <<226, 130, 172>>
    /\ Len(arg.message.frames) = 2
    /\ ret # NotApplied
    /\ ret.decoded.tag = "value"
    /\ ret.decoded.value.pos = 4

(***************************************************************************)
(* C22: for a present value encode_nullable appends exactly the frames the *)
(* element encoder appends, none of them with the null bit; for an absent  *)
(* value it appends exactly one zero-length frame with the null bit (bit   *)
(* 10); decode_nullable over the frames written gives the original         *)
(* optional value back.                                                    *)
(***************************************************************************)
C22_NullableRoundTrip ==
    (arg.op = "encode" /\ arg.fn = "nullable_string" /\ ret # NotApplied) =>
        LET before == arg.message.frames
            after  == ret.message.frames
            n      == Len(before)
        IN  /\ SubSeq(after, 1, n) = before
            /\ IS_NULL_FLAG = 2 ^ 10
            /\ IF arg.option.some
               THEN /\ after = encode_string(arg.message, arg.option.value).frames
                    /\ \A i \in n + 1 .. Len(after) : ~is_null_frame(after[i])
                    /\ ret.decoded.tag = "value"
                    /\ ret.decoded.value.some
                    /\ ret.decoded.value.value = arg.option.value
               ELSE /\ Len(after) = n + 1
                    /\ after[n + 1] = FrameNew(<<>>, IS_NULL_FLAG)
                    /\ Len(after[n + 1].content) = 0
                    /\ ret.decoded.tag = "value"
                    /\ ~ret.decoded.value.some

\* an absent value written after two frames and read back as None
C22_Witness ==
    /\ arg.op = "encode"
    /\ arg.fn = "nullable_string"
    /\ ~arg.option.some
    /\ Len(arg.message.frames) = 2
    /\ ret # NotApplied
    /\ is_null_frame(ret.message.frames[3])
    /\ ret.decoded = Returned([some |-> FALSE, pos |-> 3])

(***************************************************************************)
(* C23: for a list of N elements encode_list appends N + 2 units in this   *)
(* order: one zero-length frame with the begin-data-structure bit, the     *)
(* encoding of each element in list order, one zero-length frame with the  *)
(* end-data-structure bit; for the empty list the begin frame is directly  *)
(* followed by the end frame.                                              *)
(***************************************************************************)
C23_ListEncoding ==
    (arg.op = "encode" /\ arg.fn = "list_string" /\ ret # NotApplied) =>
        LET before == arg.message.frames
            after  == ret.message.frames
            n      == Len(before)
            N      == Len(arg.list)
        IN  /\ Len(after) = n + N + 2
            /\ SubSeq(after, 1, n) = before
            /\ after[n + 1] = FrameNew(<<>>, BEGIN_DATA_STRUCTURE_FLAG)
            /\ \A i \in 1 .. N :
                  <<after[n + 1 + i]>> =
                      SubSeq(encode_string(arg.message, arg.list[i]).frames, n + 1, n + 1)
            /\ after[n + N + 2] = FrameNew(<<>>, END_DATA_STRUCTURE_FLAG)
            /\ N = 0 => SubSeq(after, n + 1, n + 2) =
                            <<FrameNew(<<>>, BEGIN_DATA_STRUCTURE_FLAG),
                              FrameNew(<<>>, END_DATA_STRUCTURE_FLAG)>>

\* a list of two different items, kept in order
C23_Witness ==
    /\ arg.op = "encode"
    /\ arg.fn = "list_string"
    /\ Len(arg.list) = MaxListLen
    /\ arg.list[1] # arg.list[2]
    /\ ret # NotApplied
    /\ Len(ret.message.frames) = Len(arg.message.frames) + MaxListLen + 2

(***************************************************************************)
(* C24: parsing the bytes of length-prefixed frames into a Message gives   *)
(* the frames in wire order, one per length prefix, each with its flags    *)
(* and with a content of (declared length - 6) bytes, and stops after the  *)
(* frame that carries the final-message bit; the literal six-frame         *)
(* sequence gives six frames, the first with flags 0xC000 and the last     *)
(* with flags 0x2000.                                                      *)
(***************************************************************************)
LiteralBytes ==
    <<60, 0, 0, 0, 0, 192, 1, 1,
      0, 0, 0, 0, 0, 0, 0, 0,
      0, 0, 0, 0, 0, 255, 73, 46,
      192, 151, 157, 235, 55, 19, 133, 184,
      195, 217, 84, 214, 139, 1, 15, 1,
      0, 0, 0, 46, 79, 120, 33, 25,
      80, 207, 133, 221, 8, 185, 204, 255,
      148, 112, 133, 0,
      6, 0, 0, 0, 0, 16,
      10, 0, 0, 0, 0, 0, 69, 22,
      0, 0,
      16, 0, 0, 0, 0, 0, 49, 48,
      46, 48, 46, 48, 46, 49, 57, 49,
      6, 0, 0, 0, 0, 8,
      18, 0, 0, 0, 0, 32, 53, 46,
      48, 45, 83, 78, 65, 80, 83, 72,
      79, 84>>

\* the frames up to and including the first that carries the final bit
FinalIndex(frames) ==
    LET finals == {i \in 1 .. Len(frames) : is_flag_set(frames[i].flags, IS_FINAL_FLAG)}
    IN  IF finals = {} THEN Len(frames)
        ELSE CHOOSE i \in finals : \A j \in finals : i <= j

C24_ParseFrames ==
    /\ WireBytes(LiteralWire) = LiteralBytes
    /\ (arg.op = "from_bytes" /\ ret # NotApplied) =>
          /\ ret.tag = "value"
          /\ Len(ret.value.frames) = FinalIndex(arg.wire)
          /\ \A i \in 1 .. FinalIndex(arg.wire) :
                /\ ret.value.frames[i].flags = arg.wire[i].flags
                /\ ret.value.frames[i].content = arg.wire[i].body
          /\ arg.wire = LiteralWire =>
                /\ Len(ret.value.frames) = 6
                /\ ret.value.frames[1].flags = 49152
                /\ ret.value.frames[6].flags = 8192

(***************************************************************************)
(* C25: the Message built from (id, request) has the given id; its first   *)
(* frame is an initial frame with flags 0xC000 whose content is the        *)
(* request type (4 bytes little-endian), the correlation id (8 bytes       *)
(* little-endian), the partition-id placeholder FF FF FF FF and then the   *)
(* operation's fixed-width fields; the other frames follow in the          *)
(* operation's field order.                                                *)
(***************************************************************************)
\* the type of each request, byte by byte: 0x000B00, 0x1D0100, 0x100
RequestTypeBytes(kind) ==
    CASE kind = "ping" -> <<0, 11, 0, 0>>
      [] kind = "get" -> <<0, 1, 29, 0>>
      [] kind = "auth" -> <<0, 1, 0, 0>>

\* a uuid of most-significant half 1 and least-significant half 2, as written
UuidOneTwo == <<0, 1, 0, 0, 0, 0, 0, 0, 0, 2, 0, 0, 0, 0, 0, 0, 0>>

FixedFieldsOf(kind) ==
    CASE kind = "ping" -> <<>>
      [] kind = "get" -> UuidOneTwo
      [] kind = "auth" -> UuidOneTwo \o <<1>>

TrailingFramesOf(kind) ==
    CASE kind = "ping" -> <<>>
      [] kind = "get" -> <<FrameNew(<<99>>, 0), FrameNew(<<>>, 0)>>
      [] kind = "auth" ->
            <<FrameNew(<<100, 101, 118>>, 0), FrameNew(<<>>, 1024), FrameNew(<<>>, 1024),
              FrameNew(<<82, 117, 115, 116>>, 0), FrameNew(<<48, 46, 49>>, 0),
              FrameNew(<<104, 122, 95, 99, 108, 105, 101, 110, 116>>, 0),
              FrameNew(<<>>, 4096), FrameNew(<<>>, 2048)>>

C25_MessageFromRequest ==
    (arg.op = "from_request" /\ ret # NotApplied) =>
        LET message == ret.message
            first   == message.frames[1]
        IN  /\ message.id = arg.id
            /\ first.is_first
            /\ first.id = arg.id
            /\ first.flags = 49152
            /\ SubSeq(first.content, 1, 4) = RequestTypeBytes(arg.kind)
            /\ ReadLE(SubSeq(first.content, 5, 12)) = arg.id
            /\ SubSeq(first.content, 13, 16) = <<255, 255, 255, 255>>
            /\ SubSeq(first.content, 17, Len(first.content)) = FixedFieldsOf(arg.kind)
            /\ Tail(message.frames) = TrailingFramesOf(arg.kind)

\* the authentication request with an id above one byte
C25_Witness ==
    /\ arg.op = "from_request"
    /\ arg.kind = "auth"
    /\ arg.id = 256
    /\ ret # NotApplied
    /\ Len(ret.message.frames) = 9
    /\ SubSeq(ret.message.frames[1].content, 5, 6) = <<0, 1>>

(***************************************************************************)
(* C26: encode_uuid writes 17 bytes: the not-null marker 0, then the most  *)
(* significant 8 bytes of the uuid as a little-endian 64-bit value, then   *)
(* the least significant 8 bytes as a little-endian 64-bit value; for      *)
(* eb66c416-4739-465b-9af3-9dc33ed8eef9 the bytes are                      *)
(* 00 5B 46 39 47 16 C4 66 EB F9 EE D8 3E C3 9D F3 9A.                     *)
(***************************************************************************)
LiteralUuid ==
    <<235, 102, 196, 22, 71, 57, 70, 91, 154, 243, 157, 195, 62, 216, 238, 249>>

C26_EncodeUuid ==
    (arg.op = "uuid" /\ ret # NotApplied) =>
        /\ Len(ret.fields) = 17
        /\ ret.fields[1] = 0
        /\ \A i \in 1 .. 8 :
              /\ ret.fields[1 + i] = arg.uuid[9 - i]
              /\ ret.fields[9 + i] = arg.uuid[17 - i]
        /\ arg.uuid = LiteralUuid =>
              ret.fields = <<0, 91, 70, 57, 71, 22, 196, 102, 235,
                             249, 238, 216, 62, 195, 157, 243, 154>>

C26_Witness ==
    /\ arg.op = "uuid"
    /\ arg.uuid = LiteralUuid
    /\ ret # NotApplied
    /\ ret.fields[2] = 91
    /\ ret.fields[17] = 154

(***************************************************************************)
(* C27: decode_uuid on the bytes encode_uuid wrote for a uuid returns that *)
(* uuid, although it reads the two halves under the opposite names; a      *)
(* non-zero marker byte makes it return None, and it reads no byte after   *)
(* the marker.                                                             *)
(***************************************************************************)
C27_UuidRoundTrip ==
    (arg.op = "uuid" /\ ret # NotApplied) =>
        /\ (arg.marker = 0 /\ arg.cut = UUID_BYTES + 1) =>
              ret.decoded = Returned([none |-> FALSE, uuid |-> arg.uuid])
        /\ arg.marker # 0 => ret.decoded = Returned([none |-> TRUE])

\* a uuid whose halves differ is read back
C27_Witness ==
    /\ arg.op = "uuid"
    /\ arg.uuid = UuidOf(1, 2)
    /\ arg.marker = 0
    /\ arg.cut = UUID_BYTES + 1
    /\ ret # NotApplied
    /\ ret.decoded = Returned([none |-> FALSE, uuid |-> UuidOf(1, 2)])

(***************************************************************************)
(* C28: each frame predicate tests one flag bit whatever the other bits    *)
(* are: is_begin_frame is true exactly when bit 12 is set, is_end_frame    *)
(* exactly when bit 11 is set, is_null_frame exactly when bit 10 is set;   *)
(* is_flag_set(flags, mask) is true exactly when every bit of the mask is  *)
(* set in the flags.                                                       *)
(***************************************************************************)
BitSet(word, k) == (word \div 2 ^ k) % 2 = 1

C28_FramePredicates ==
    (arg.op = "predicates" /\ ret # NotApplied) =>
        /\ ret.is_begin_frame = BitSet(arg.flags, 12)
        /\ ret.is_end_frame = BitSet(arg.flags, 11)
        /\ ret.is_null_frame = BitSet(arg.flags, 10)
        /\ (BitSet(arg.flags, 12) /\ ~BitSet(arg.flags, 11)) =>
              ret.is_begin_frame /\ ~ret.is_end_frame
        /\ (BitSet(arg.flags, 11) /\ ~BitSet(arg.flags, 12)) =>
              ret.is_end_frame /\ ~ret.is_begin_frame
        /\ ret.is_flag_set =
              \A k \in 0 .. 15 : BitSet(arg.mask, k) => BitSet(arg.flags, k)

\* one of two mask bits is set: not a match; the begin bit among other bits
C28_Witness ==
    /\ arg.op = "predicates"
    /\ arg.flags = BitOr(BEGIN_FRAGMENT_FLAG, BitOr(BEGIN_DATA_STRUCTURE_FLAG, IS_NULL_FLAG))
    /\ arg.mask = UNFRAGMENTED_MESSAGE
    /\ ret # NotApplied
    /\ ~ret.is_flag_set
    /\ ret.is_begin_frame
    /\ ~ret.is_end_frame

(***************************************************************************)
(* C29: decode_nullable leaves the frame cursor after exactly the frames   *)
(* encode_nullable wrote: after the value's frames for a present value,    *)
(* after the single null frame for an absent one, so that the next field   *)
(* is decoded from its own frame; an authentication response with no       *)
(* address decodes to address = None and to the server version held by     *)
(* the frame after the null frame.                                         *)
(***************************************************************************)
\* the server version "5.0" of the response
ServerVersion == <<53, 46, 48>>

C29_NullableAdvancesCursor ==
    /\ (arg.op = "encode" /\ arg.fn = "nullable_string" /\ ret # NotApplied) =>
          /\ ret.decoded.tag = "value"
          /\ ret.decoded.value.pos = Len(ret.message.frames) + 1
    /\ (arg.op = "auth_decode" /\ ret # NotApplied) =>
          /\ ret.tag = "value"
          /\ ret.value.address.some = arg.with_address
          /\ ret.value.hz_server_version = ServerVersion

(***************************************************************************)
(* C30: whenever Channel::send returns Ok(message) the message is a        *)
(* complete response: its first frame is an initial frame, its last frame  *)
(* carries the final-message bit and no frame of the response is missing,  *)
(* wherever the coordinating loop stops or the connection is lost.         *)
(***************************************************************************)
C30_OkIsComplete ==
    \A c \in Calls :
        pc[c] = "ok" =>
            LET frames == msg[c].frames
            IN  /\ frames # <<>>
                /\ frames[1].is_first
                /\ is_flag_set(frames[Len(frames)].flags, IS_FINAL_FLAG)
                /\ \E i \in 1 .. Len(inlog) :
                      /\ inlog[i].idx = 1
                      /\ frames[1] = FrameFrom(inlog[i].bytes, TRUE)
                      /\ Len(frames) = inlog[i].n

(***************************************************************************)
(* C31: while the loop runs, a cursor that names a correlation id has an   *)
(* entry for that id in the table, so a continuation or final frame never  *)
(* meets a missing entry; and the cursor is inactive exactly when no       *)
(* response is partially received.                                         *)
(***************************************************************************)
\* the last frame the loop handled belongs to a response and is not its last
PartiallyReceived == inlog # <<>> /\ inlog[Len(inlog)].idx < inlog[Len(inlog)].n

C31_CursorNamesEntry ==
    loop = "running" =>
        /\ active_correlation # NO_CORRELATION => active_correlation \in DOMAIN correlations
        /\ (active_correlation = NO_CORRELATION) <=> ~PartiallyReceived

(***************************************************************************)
(* C32: the egress step that writes a request and inserts its entry runs   *)
(* with no inbound frame handled in between, the entry of a request is in  *)
(* the table when the loop handles the first frame of its response, and a  *)
(* peer that answers only the requests it has received in full never       *)
(* makes the loop fail on a missing correlation.                           *)
(***************************************************************************)
\* the frame parsed well and the table had no entry for it
MissingCorrelation(e) == e.to = 0 /\ ~FrameFromPanics(e.bytes, e.first)

C32_RegisteredBeforeIngress ==
    [][/\ cur # <<>> => inlog' = inlog
       /\ (inlog' # inlog /\ ~rogue) =>
              LET e == inlog'[Len(inlog')]
              IN  /\ e.idx = 1 => e.resp \in DOMAIN correlations
                  /\ ~MissingCorrelation(e)]_vars

(***************************************************************************)
(* C33: a call abandoned after its request was enqueued withdraws nothing: *)
(* the queue, the message being written, the table and the cursor are as   *)
(* before; the loop discards the frames of its response and keeps running, *)
(* removes the entry and clears the cursor at the final-marked frame of    *)
(* that response; and a frame forwarded to another call belongs to the     *)
(* response carrying that call's id.                                       *)
(***************************************************************************)
Abandons(c) == pc[c] # "abandoned" /\ pc'[c] = "abandoned"

C33_AbandonedStillServed ==
    [][/\ \A c \in Calls :
             Abandons(c) => UNCHANGED <<egress, cur, wire, correlations, active_correlation,
                                        loop, txAlive>>
       /\ (inlog' # inlog /\ ~rogue) =>
              LET e == inlog'[Len(inlog')]
              IN  \A c \in Calls :
                     /\ (pc[c] = "abandoned" /\ e.resp = req[c].id) =>
                            /\ loop' = "running"
                            /\ rx'[c] = <<>>
                            /\ e.idx = e.n =>
                                   /\ req[c].id \notin DOMAIN correlations'
                                   /\ active_correlation' = NO_CORRELATION
                     /\ (pc[c] # "abandoned" /\ e.to = c) => e.resp = req[c].id]_vars

(***************************************************************************)
(* C34: messages are written in the order in which send enqueued them: an  *)
(* enqueue puts its call last in line, no other step of a running          *)
(* connection changes the line, each frame written belongs to the call at  *)
(* the head of those not yet written in full, and on the wire no frame of  *)
(* one message follows a frame of a message that was started after it.     *)
(***************************************************************************)
\* the calls in the order their messages are, or will be, written
WriteLine ==
    LET begun    == SelectSeq(wire, LAMBDA e : e.idx = 1)
        inHand   == IF cur # <<>> /\ cur[1].next = 1 THEN <<cur[1].responder>> ELSE <<>>
    IN  [i \in 1 .. Len(begun) |-> begun[i].call] \o inHand
            \o [i \in 1 .. Len(egress) |-> egress[i].responder]

Unwritten == [i \in 1 .. Len(cur) |-> cur[i].responder]
                 \o [i \in 1 .. Len(egress) |-> egress[i].responder]

Enqueues(c) == pc[c] = "encoded" /\ pc'[c] = "first"

C34_WrittenInEnqueueOrder ==
    [][/\ \A c \in Calls : Enqueues(c) => WriteLine' = Append(WriteLine, c)
       /\ (loop' = "running" /\ \A c \in Calls : ~Enqueues(c)) => WriteLine' = WriteLine
       /\ wire' # wire =>
              LET new == wire'[Len(wire')]
              IN  /\ new.call = Head(Unwritten)
                  /\ IF new.idx = 1
                     THEN \A i \in 1 .. Len(wire) : wire[i].call # new.call
                     ELSE wire[Len(wire)].call = new.call]_vars

\* both messages are on the wire in full, the second call's first, and the
\* first one written has more than one frame
C34_Witness ==
    /\ Len(wire) > 2
    /\ wire[1].call = 2
    /\ wire[2].call = 2
    /\ wire[Len(wire)].call = 1
    /\ \A c \in Calls : FullyWritten(c)

(***************************************************************************)
(* C35: a Channel::send issued after the loop has ended returns an error   *)
(* at once: its first step is enabled whatever the connection does, that   *)
(* step ends the call with an error, nothing is queued, the call never     *)
(* waits on its sink, does not panic and has no Message.                   *)
(***************************************************************************)
C35_SendAfterLoopEnded ==
    [][\A c \in Calls :
          (pc[c] = "encoded" /\ loop # "running") =>
              /\ ENABLED ChannelSendEnqueue(c)
              /\ pc'[c] # pc[c] =>
                     /\ pc'[c] = "err"
                     /\ msg'[c] = NoMessage
                     /\ egress' = egress
                     /\ txAlive' = txAlive]_vars

\* a call ended with an error on a connection whose loop had panicked
C35_Witness ==
    \E c \in Calls : pc[c] = "err" /\ loop = "panicked" /\ msg[c] = NoMessage /\ egress = <<>>

(***************************************************************************)
(* C36: Frame::from undoes Frame::payload: for a frame f built by the      *)
(* constructors, first or not, Frame::from(f.payload(false), f.is_first)   *)
(* equals f in flags, content, is_first, type and id, and with             *)
(* payload(true) the result is f with the final-message bit added to its   *)
(* flags and nothing else changed.                                         *)
(***************************************************************************)
C36_FromInvertsPayload ==
    (arg.op = "frame_roundtrip" /\ ret # NotApplied) =>
        /\ ret.plain = ArgFrame(arg)
        /\ ret.final = [ArgFrame(arg) EXCEPT !.flags = BitOr(@, IS_FINAL_FLAG)]

\* a first frame with content after its header, not marked final, went
\* through payload(true) and Frame::from
C36_Witness ==
    /\ arg.op = "frame_roundtrip"
    /\ ret # NotApplied
    /\ arg.how = "initial_frame"
    /\ arg.flags = UNFRAGMENTED_MESSAGE
    /\ arg.id = 256
    /\ arg.content = <<0, 36>>
    /\ ret.final.flags # arg.flags
    /\ ret.plain.content = WriteLE(arg.type, 4) \o WriteLE(256, 8) \o <<0, 36>>

(***************************************************************************)
(* C37: every Message built from a request, parsed from bytes or gathered  *)
(* by Channel::send has at least one frame, its first frame is an initial  *)
(* frame and carries the id Message::id returns; and when a gathered       *)
(* Message changes, its frames are the frames it had, in the same order,   *)
(* with one more at the end.                                               *)
(***************************************************************************)
WellFormed(m) == m.frames # <<>> /\ m.frames[1].is_first /\ m.frames[1].id = m.id

C37_FirstFrameInitial ==
    [][/\ \A c \in Calls :
             /\ req'[c] # NoMessage => WellFormed(req'[c])
             /\ msg'[c] # NoMessage => WellFormed(msg'[c])
             /\ (msg[c] # NoMessage /\ msg'[c] # msg[c]) =>
                    /\ Len(msg'[c].frames) = Len(msg[c].frames) + 1
                    /\ SubSeq(msg'[c].frames, 1, Len(msg[c].frames)) = msg[c].frames
       /\ (arg.op = "from_request" /\ ret' # NotApplied) => WellFormed(ret'.message)
       /\ (arg.op = "from_bytes" /\ ret' # NotApplied /\ ret'.tag = "value") =>
              /\ WellFormed(ret'.value)
              /\ \A i \in 1 .. Len(ret'.value.frames) :
                     payload(ret'.value.frames[i], FALSE)
                         = WriteLE(arg.wire[i].flags, FLAGS_LENGTH) \o arg.wire[i].body]_vars

\* a call gathered a response of three frames after a request of three
C37_Witness ==
    \E c \in Calls :
        /\ Len(req[c].frames) = 3
        /\ Len(msg[c].frames) = 3
        /\ WellFormed(msg[c])
        /\ msg[c].id = 1

(***************************************************************************)
(* C38: on frames that start with a begin marker, a frame holding a port   *)
(* in four little-endian bytes, a string frame holding the host and an end *)
(* marker, decode_address returns the Address of that host and port and    *)
(* has consumed exactly those four frames: the cursor is on the frame      *)
(* after the end marker, or past the end when none follows.                *)
(***************************************************************************)
\* the frames start with an Address in its layout
StartsWithAddress(frames) ==
    /\ Len(frames) >= 4
    /\ is_begin_frame(frames[1])
    /\ Len(frames[2].content) = 4
    /\ ValidUtf8(frames[3].content)
    /\ is_end_frame(frames[4])

C38_DecodeAddress ==
    (arg.op = "decode" /\ arg.fn = "address" /\ ret # NotApplied
        /\ StartsWithAddress(arg.frames)) =>
        /\ ret.tag = "value"
        /\ ret.value.value.host = arg.frames[3].content
        /\ WriteLE(ret.value.value.port, 4) = arg.frames[2].content
        /\ ret.value.pos = 5

\* "localhost", port 5701, with one more frame after the end marker
C38_Witness ==
    /\ arg.op = "decode"
    /\ arg.fn = "address"
    /\ ret # NotApplied
    /\ Len(arg.frames) = 5
    /\ SubSeq(arg.frames, 1, 4)
           = AddressFrames(<<108, 111, 99, 97, 108, 104, 111, 115, 116>>, 5701)
    /\ ret = Returned([value |-> [host |-> <<108, 111, 99, 97, 108, 104, 111, 115, 116>>,
                                  port |-> 5701],
                       pos |-> 5])

(***************************************************************************)
(* C39: for every list of replica timestamp entries, the empty one         *)
(* included, encode_replica_timestamp_list adds exactly one frame, whose   *)
(* content holds the entries one after another at 25 bytes each, the 17    *)
(* bytes of the encoded key and the 8 bytes of the value; and              *)
(* decode_replica_timestamp_list on that frame returns the same entries in *)
(* the same order, as many as the content length divided by 25.            *)
(***************************************************************************)
C39_ReplicaListRoundTrip ==
    (arg.op = "replica_list" /\ ret # NotApplied) =>
        LET frames  == ret.message.frames
            content == frames[Len(frames)].content
        IN  /\ frames = Append(ReplicaListBase.frames, frames[Len(frames)])
            /\ Len(content) = 25 * Len(arg.entries)
            /\ \A i \in 1 .. Len(arg.entries) :
                   /\ SubSeq(content, 25 * (i - 1) + 1, 25 * (i - 1) + 17)
                          = encode_uuid(arg.entries[i].key)
                   /\ SubSeq(content, 25 * (i - 1) + 18, 25 * i)
                          = WriteLE(arg.entries[i].value, 8)
            /\ ret.decoded.tag = "value"
            /\ ret.decoded.value.entries = arg.entries
            /\ Len(ret.decoded.value.entries) = Len(content) \div 25
            /\ ret.decoded.value.pos = Len(frames) + 1

\* two different entries went through the encoder and the decoder
C39_Witness ==
    /\ arg.op = "replica_list"
    /\ ret # NotApplied
    /\ Len(arg.entries) = 2
    /\ arg.entries[1].key # arg.entries[2].key
    /\ arg.entries[1].value = 1001
    /\ arg.entries[2].value = 2147483647
    /\ Len(ret.message.frames[2].content) = 50
    /\ ret.decoded.value.entries = arg.entries
====
